---- MODULE Spec2Model ----
(***************************************************************************)
(* clox: the bytecode virtual machine (vm.c), its closures and upvalues,   *)
(* and the mark-sweep collector (memory.c), as a state machine.            *)
(*                                                                         *)
(* One action per bytecode handler of run(); interpret() is one action     *)
(* that compiles a source and installs the first call frame.  Sources are  *)
(* given by the code the compiler emits for their token streams (the       *)
(* record Programs); the scanner is treated by its token contract.         *)
(* A collection may happen at every allocation that grows the heap: the    *)
(* trigger (bytes_allocated > next_gc, or the stress build) is a           *)
(* nondeterministic choice here.                                           *)
(***************************************************************************)
EXTENDS Integers, Sequences, FiniteSets, TLC

VARIABLES
    stack,          \* vm.stack: slots written so far (a dead slot keeps its value)
    stack_top,      \* vm.stack_top - vm.stack
    frames,         \* vm.frames[0 .. frame_count-1]
    open_upvalues,  \* vm.open_upvalues: head of the open list (NULL = 0)
    globals,        \* vm.globals: key string -> value
    strings,        \* vm.strings: the intern table's keys
    objects,        \* vm.objects: the intrusive all-objects list, head first
    gray_stack,     \* vm.gray_stack[0 .. gray_count-1]
    heap,           \* the C heap: address -> object
    next_id,        \* the next fresh address
    pc,             \* "idle" (in main, between interpret calls) | "run" (inside run())
    result,         \* what the last interpret call returned
    lines,          \* interpret calls made so far
    source,         \* the source of the last interpret call
    out,            \* stdout of the last interpret call
    err,            \* the runtime error message of the last interpret call
    gc_lost,        \* objects reachable when a collection began that it freed
    gc_leaked,      \* objects a collection kept that were unreachable at sweep
    uaf,            \* a freed object has been read
    current,        \* compiler.c `current`: the chain of functions being compiled
    parsed,         \* how far compile() has come through the source
    session,        \* the calls of interpret that have returned, and their results
    mem,            \* a block of the C heap, and the last reallocate() of it
    emit,           \* the chunk as emitJump, patchJump and emitLoop see it
    chunk,          \* a Chunk under writeChunk, addConstant and freeChunk
    parser,         \* compiler.c `parser`, and the tokens ahead of it
    scanner,        \* scanner.c `scanner`, and the source buffer
    deep            \* vm.stack_top and vm.frames in a deep recursion

vars == << stack, stack_top, frames, open_upvalues, globals, strings, objects,
           gray_stack, heap, next_id, pc, result, lines, source, out, err,
           gc_lost, gc_leaked, uaf, current, parsed,
           session, mem, emit, chunk, parser, scanner, deep >>

\* The machine of vm.c, as against the units that are also tried on their own
machine == << stack, stack_top, frames, open_upvalues, globals, strings, objects,
              gray_stack, heap, next_id, pc, result, lines, source, out, err,
              gc_lost, gc_leaked, uaf, current, parsed, session >>

\* The number of interpret calls of one session (the REPL loop is unbounded).
MaxLines == 2
MaxSize == 3

NULL == 0

FRAMES_MAX == 64

----
\* Values (value.h)

NIL_VAL == [type |-> "nil", as |-> 0]
BOOL_VAL(b) == [type |-> "bool", as |-> IF b THEN 1 ELSE 0]
NUMBER_VAL(n) == [type |-> "number", as |-> n]
OBJ_VAL(id) == [type |-> "obj", as |-> id]

IS_BOOL(v) == v.type = "bool"
IS_NIL(v) == v.type = "nil"
IS_NUMBER(v) == v.type = "number"
IS_OBJ(v) == v.type = "obj"
AS_BOOL(v) == v.as = 1
AS_NUMBER(v) == v.as
AS_OBJ(v) == v.as

----
\* Compiled sources

(* counter.lox:
     { var n = 0;
       fun makeCounter() {
         var i = 0;
         fun count() { i = i + 1; print i; }
         return count;
       }
       var c = makeCounter(); c(); c(); c(); }
 *)
Programs ==
  [
  counter |->
  << [name |-> <<>>, arity |-> 0, upvalue_count |-> 0, code |-> <<"OP_CONSTANT", 0, "OP_CLOSURE", 1, "OP_GET_LOCAL", 2, "OP_CALL", 0, "OP_GET_LOCAL", 3, "OP_CALL", 0, "OP_POP", "OP_GET_LOCAL", 3, "OP_CALL", 0, "OP_POP", "OP_GET_LOCAL", 3, "OP_CALL", 0, "OP_POP", "OP_POP", "OP_POP", "OP_POP", "OP_NIL", "OP_RETURN">>, locals |-> <<2,2,3,3,4,4,4,4,4,4,4,4,4,4,4,4,4,4,4,4,4,4,4,4,3,2,1,1>>, complete |-> <<1,1,2,2,3,3,3,3,4,4,4,4,4,4,4,4,4,4,4,4,4,4,4,4,3,2,1,1>>, opcodes |-> {0, 2, 4, 6, 8, 10, 12, 13, 15, 17, 18, 20, 22, 23, 24, 25, 26, 27}, statements |-> {<<2, 2>>, <<4, 3>>, <<8, 4>>, <<13, 4>>, <<18, 4>>, <<23, 4>>, <<26, 1>>}, constants |-> <<<<"number", 0>>, <<"function", 2>>>>],
     [name |-> <<"m","a","k","e","C","o","u","n","t","e","r">>, arity |-> 0, upvalue_count |-> 0, code |-> <<"OP_CONSTANT", 0, "OP_CLOSURE", 1, 1, 1, "OP_GET_LOCAL", 2, "OP_RETURN", "OP_NIL", "OP_RETURN">>, locals |-> <<2,2,3,3,3,3,3,3,3,3,3>>, complete |-> <<1,1,2,2,2,2,3,3,3,3,3>>, opcodes |-> {0, 2, 6, 8, 9, 10}, statements |-> {<<2, 2>>, <<6, 3>>, <<9, 3>>}, constants |-> <<<<"number", 0>>, <<"function", 3>>>>],
     [name |-> <<"c","o","u","n","t">>, arity |-> 0, upvalue_count |-> 1, code |-> <<"OP_GET_UPVALUE", 0, "OP_CONSTANT", 0, "OP_ADD", "OP_SET_UPVALUE", 0, "OP_POP", "OP_GET_UPVALUE", 0, "OP_PRINT", "OP_NIL", "OP_RETURN">>, locals |-> <<1,1,1,1,1,1,1,1,1,1,1,1,1>>, complete |-> <<1,1,1,1,1,1,1,1,1,1,1,1,1>>, opcodes |-> {0, 2, 4, 5, 7, 8, 10, 11, 12}, statements |-> {<<8, 1>>, <<11, 1>>}, constants |-> <<<<"number", 1>>>>] >>,

(* shared.lox:
     { var a; var b;
       { var x = 0;
         fun setA(v){ x = v; } fun getB(){ print x; }
         setA("in"); print x; getB();
         a = setA; b = getB; }
       a("hi"); b(); }
 *)
  shared |->
  << [name |-> <<>>, arity |-> 0, upvalue_count |-> 0, code |-> <<"OP_NIL", "OP_NIL", "OP_CONSTANT", 0, "OP_CLOSURE", 1, 1, 3, "OP_CLOSURE", 2, 1, 3, "OP_GET_LOCAL", 4, "OP_CONSTANT", 3, "OP_CALL", 1, "OP_POP", "OP_GET_LOCAL", 3, "OP_PRINT", "OP_GET_LOCAL", 5, "OP_CALL", 0, "OP_POP", "OP_GET_LOCAL", 4, "OP_SET_LOCAL", 1, "OP_POP", "OP_GET_LOCAL", 5, "OP_SET_LOCAL", 2, "OP_POP", "OP_POP", "OP_POP", "OP_CLOSE_UPVALUE", "OP_GET_LOCAL", 1, "OP_CONSTANT", 4, "OP_CALL", 1, "OP_POP", "OP_GET_LOCAL", 2, "OP_CALL", 0, "OP_POP", "OP_POP", "OP_POP", "OP_NIL", "OP_RETURN">>, locals |-> <<2,3,4,4,5,5,5,5,6,6,6,6,6,6,6,6,6,6,6,6,6,6,6,6,6,6,6,6,6,6,6,6,6,6,6,6,6,6,5,4,3,3,3,3,3,3,3,3,3,3,3,3,3,2,1,1>>, complete |-> <<1,2,3,3,4,4,4,4,5,5,5,5,6,6,6,6,6,6,6,6,6,6,6,6,6,6,6,6,6,6,6,6,6,6,6,6,6,6,5,4,3,3,3,3,3,3,3,3,3,3,3,3,3,2,1,1>>, opcodes |-> {0, 1, 2, 4, 8, 12, 14, 16, 18, 19, 21, 22, 24, 26, 27, 29, 31, 32, 34, 36, 37, 38, 39, 40, 42, 44, 46, 47, 49, 51, 52, 53, 54, 55}, statements |-> {<<1, 2>>, <<2, 3>>, <<4, 4>>, <<8, 5>>, <<12, 6>>, <<19, 6>>, <<22, 6>>, <<27, 6>>, <<32, 6>>, <<37, 6>>, <<40, 3>>, <<47, 3>>, <<52, 3>>, <<54, 1>>}, constants |-> <<<<"number", 0>>, <<"function", 2>>, <<"function", 3>>, <<"string", <<"i","n">>>>, <<"string", <<"h","i">>>>>>],
     [name |-> <<"s","e","t","A">>, arity |-> 1, upvalue_count |-> 1, code |-> <<"OP_GET_LOCAL", 1, "OP_SET_UPVALUE", 0, "OP_POP", "OP_NIL", "OP_RETURN">>, locals |-> <<2,2,2,2,2,2,2>>, complete |-> <<2,2,2,2,2,2,2>>, opcodes |-> {0, 2, 4, 5, 6}, statements |-> {<<5, 2>>}, constants |-> <<>>],
     [name |-> <<"g","e","t","B">>, arity |-> 0, upvalue_count |-> 1, code |-> <<"OP_GET_UPVALUE", 0, "OP_PRINT", "OP_NIL", "OP_RETURN">>, locals |-> <<1,1,1,1,1>>, complete |-> <<1,1,1,1,1>>, opcodes |-> {0, 2, 3, 4}, statements |-> {<<3, 1>>}, constants |-> <<>>] >>,

(* strings.lox:
     var s = "a" + "b";
     print s;
     print s == "ab";
     print "b" + "c" == s;
     print 1 + 2;
 *)
  strings |->
  << [name |-> <<>>, arity |-> 0, upvalue_count |-> 0, code |-> <<"OP_CONSTANT", 1, "OP_CONSTANT", 2, "OP_ADD", "OP_DEFINE_GLOBAL", 0, "OP_GET_GLOBAL", 3, "OP_PRINT", "OP_GET_GLOBAL", 4, "OP_CONSTANT", 5, "OP_EQUAL", "OP_PRINT", "OP_CONSTANT", 6, "OP_CONSTANT", 7, "OP_ADD", "OP_GET_GLOBAL", 8, "OP_EQUAL", "OP_PRINT", "OP_CONSTANT", 9, "OP_CONSTANT", 10, "OP_ADD", "OP_PRINT", "OP_NIL", "OP_RETURN">>, locals |-> <<1,1,1,1,1,1,1,1,1,1,1,1,1,1,1,1,1,1,1,1,1,1,1,1,1,1,1,1,1,1,1,1,1>>, complete |-> <<1,1,1,1,1,1,1,1,1,1,1,1,1,1,1,1,1,1,1,1,1,1,1,1,1,1,1,1,1,1,1,1,1>>, opcodes |-> {0, 2, 4, 5, 7, 9, 10, 12, 14, 15, 16, 18, 20, 21, 23, 24, 25, 27, 29, 30, 31, 32}, statements |-> {<<7, 1>>, <<10, 1>>, <<16, 1>>, <<25, 1>>, <<31, 1>>}, constants |-> <<<<"string", <<"s">>>>, <<"string", <<"a">>>>, <<"string", <<"b">>>>, <<"string", <<"s">>>>, <<"string", <<"s">>>>, <<"string", <<"a","b">>>>, <<"string", <<"b">>>>, <<"string", <<"c">>>>, <<"string", <<"s">>>>, <<"number", 1>>, <<"number", 2>>>>] >>,

(* adderr.lox:
     print "a" + 1;
 *)
  adderr |->
  << [name |-> <<>>, arity |-> 0, upvalue_count |-> 0, code |-> <<"OP_CONSTANT", 0, "OP_CONSTANT", 1, "OP_ADD", "OP_PRINT", "OP_NIL", "OP_RETURN">>, locals |-> <<1,1,1,1,1,1,1,1>>, complete |-> <<1,1,1,1,1,1,1,1>>, opcodes |-> {0, 2, 4, 5, 6, 7}, statements |-> {<<6, 1>>}, constants |-> <<<<"string", <<"a">>>>, <<"number", 1>>>>] >>,

(* arity.lox:
     fun f(){} f(1);
 *)
  arity |->
  << [name |-> <<>>, arity |-> 0, upvalue_count |-> 0, code |-> <<"OP_CLOSURE", 1, "OP_DEFINE_GLOBAL", 0, "OP_GET_GLOBAL", 2, "OP_CONSTANT", 3, "OP_CALL", 1, "OP_POP", "OP_NIL", "OP_RETURN">>, locals |-> <<1,1,1,1,1,1,1,1,1,1,1,1,1>>, complete |-> <<1,1,1,1,1,1,1,1,1,1,1,1,1>>, opcodes |-> {0, 2, 4, 6, 8, 10, 11, 12}, statements |-> {<<4, 1>>, <<11, 1>>}, constants |-> <<<<"string", <<"f">>>>, <<"function", 2>>, <<"string", <<"f">>>>, <<"number", 1>>>>],
     [name |-> <<"f">>, arity |-> 0, upvalue_count |-> 0, code |-> <<"OP_NIL", "OP_RETURN">>, locals |-> <<1,1>>, complete |-> <<1,1>>, opcodes |-> {0, 1}, statements |-> {}, constants |-> <<>>] >>,

(* recurse.lox:
     fun f(){ f(); } f();
 *)
  recurse |->
  << [name |-> <<>>, arity |-> 0, upvalue_count |-> 0, code |-> <<"OP_CLOSURE", 1, "OP_DEFINE_GLOBAL", 0, "OP_GET_GLOBAL", 2, "OP_CALL", 0, "OP_POP", "OP_NIL", "OP_RETURN">>, locals |-> <<1,1,1,1,1,1,1,1,1,1,1>>, complete |-> <<1,1,1,1,1,1,1,1,1,1,1>>, opcodes |-> {0, 2, 4, 6, 8, 9, 10}, statements |-> {<<4, 1>>, <<9, 1>>}, constants |-> <<<<"string", <<"f">>>>, <<"function", 2>>, <<"string", <<"f">>>>>>],
     [name |-> <<"f">>, arity |-> 0, upvalue_count |-> 0, code |-> <<"OP_GET_GLOBAL", 0, "OP_CALL", 0, "OP_POP", "OP_NIL", "OP_RETURN">>, locals |-> <<1,1,1,1,1,1,1>>, complete |-> <<1,1,1,1,1,1,1>>, opcodes |-> {0, 2, 4, 5, 6}, statements |-> {<<5, 1>>}, constants |-> <<<<"string", <<"f">>>>>>] >>,

(* negerr.lox:
     var h;
     fun f() { var x = 1; fun g() { return x; } h = g; return -g; }
     f();
 *)
  negerr |->
  << [name |-> <<>>, arity |-> 0, upvalue_count |-> 0, code |-> <<"OP_NIL", "OP_DEFINE_GLOBAL", 0, "OP_CLOSURE", 2, "OP_DEFINE_GLOBAL", 1, "OP_GET_GLOBAL", 3, "OP_CALL", 0, "OP_POP", "OP_NIL", "OP_RETURN">>, locals |-> <<1,1,1,1,1,1,1,1,1,1,1,1,1,1>>, complete |-> <<1,1,1,1,1,1,1,1,1,1,1,1,1,1>>, opcodes |-> {0, 1, 3, 5, 7, 9, 11, 12, 13}, statements |-> {<<3, 1>>, <<7, 1>>, <<12, 1>>}, constants |-> <<<<"string", <<"h">>>>, <<"string", <<"f">>>>, <<"function", 2>>, <<"string", <<"f">>>>>>],
     [name |-> <<"f">>, arity |-> 0, upvalue_count |-> 0, code |-> <<"OP_CONSTANT", 0, "OP_CLOSURE", 1, 1, 1, "OP_GET_LOCAL", 2, "OP_SET_GLOBAL", 2, "OP_POP", "OP_GET_LOCAL", 2, "OP_NEGATE", "OP_RETURN", "OP_NIL", "OP_RETURN">>, locals |-> <<2,2,3,3,3,3,3,3,3,3,3,3,3,3,3,3,3>>, complete |-> <<1,1,2,2,2,2,3,3,3,3,3,3,3,3,3,3,3>>, opcodes |-> {0, 2, 6, 8, 10, 11, 13, 14, 15, 16}, statements |-> {<<2, 2>>, <<6, 3>>, <<11, 3>>, <<15, 3>>}, constants |-> <<<<"number", 1>>, <<"function", 3>>, <<"string", <<"h">>>>>>],
     [name |-> <<"g">>, arity |-> 0, upvalue_count |-> 1, code |-> <<"OP_GET_UPVALUE", 0, "OP_RETURN", "OP_NIL", "OP_RETURN">>, locals |-> <<1,1,1,1,1>>, complete |-> <<1,1,1,1,1>>, opcodes |-> {0, 2, 3, 4}, statements |-> {<<3, 1>>}, constants |-> <<>>] >>,

(* flow.lox:
     clock() == false;
     { var n = 0; while (n < 2) { n = n + 1; } print n; }
     print 1 + 2 * 3;
     print !(6 / 2 - 4 > -1) == true or false;
 *)
  flow |->
  << [name |-> <<>>, arity |-> 0, upvalue_count |-> 0, code |-> <<"OP_GET_GLOBAL", 0, "OP_CALL", 0, "OP_FALSE", "OP_EQUAL", "OP_POP", "OP_CONSTANT", 1, "OP_GET_LOCAL", 1, "OP_CONSTANT", 2, "OP_LESS", "OP_JUMP_IF_FALSE", 0, 12, "OP_POP", "OP_GET_LOCAL", 1, "OP_CONSTANT", 3, "OP_ADD", "OP_SET_LOCAL", 1, "OP_POP", "OP_LOOP", 0, 20, "OP_POP", "OP_GET_LOCAL", 1, "OP_PRINT", "OP_POP", "OP_CONSTANT", 4, "OP_CONSTANT", 5, "OP_CONSTANT", 6, "OP_MULTIPLY", "OP_ADD", "OP_PRINT", "OP_CONSTANT", 7, "OP_CONSTANT", 8, "OP_DIVIDE", "OP_CONSTANT", 9, "OP_SUBTRACT", "OP_CONSTANT", 10, "OP_NEGATE", "OP_GREATER", "OP_NOT", "OP_TRUE", "OP_EQUAL", "OP_JUMP_IF_FALSE", 0, 3, "OP_JUMP", 0, 2, "OP_POP", "OP_FALSE", "OP_PRINT", "OP_NIL", "OP_RETURN">>, locals |-> <<1,1,1,1,1,1,1,2,2,2,2,2,2,2,2,2,2,2,2,2,2,2,2,2,2,2,2,2,2,2,2,2,2,2,1,1,1,1,1,1,1,1,1,1,1,1,1,1,1,1,1,1,1,1,1,1,1,1,1,1,1,1,1,1,1,1,1,1,1>>, complete |-> <<1,1,1,1,1,1,1,1,1,2,2,2,2,2,2,2,2,2,2,2,2,2,2,2,2,2,2,2,2,2,2,2,2,2,1,1,1,1,1,1,1,1,1,1,1,1,1,1,1,1,1,1,1,1,1,1,1,1,1,1,1,1,1,1,1,1,1,1,1>>, opcodes |-> {0, 2, 4, 5, 6, 7, 9, 11, 13, 14, 17, 18, 20, 22, 23, 25, 26, 29, 30, 32, 33, 34, 36, 38, 40, 41, 42, 43, 45, 47, 48, 50, 51, 53, 54, 55, 56, 57, 58, 61, 64, 65, 66, 67, 68}, statements |-> {<<7, 1>>, <<9, 2>>, <<26, 2>>, <<30, 2>>, <<33, 2>>, <<34, 1>>, <<43, 1>>, <<67, 1>>}, constants |-> <<<<"string", <<"c","l","o","c","k">>>>, <<"number", 0>>, <<"number", 2>>, <<"number", 1>>, <<"number", 1>>, <<"number", 2>>, <<"number", 3>>, <<"number", 6>>, <<"number", 2>>, <<"number", 4>>, <<"number", 1>>>>] >>,

(* order.lox:
     {
       var a = 1; var b = 2; var c = 3;
       fun fa() { return a; }
       fun f() { return c + b; }
       print fa() + f();
     }
 *)
  order |->
  << [name |-> <<>>, arity |-> 0, upvalue_count |-> 0, code |-> <<"OP_CONSTANT", 0, "OP_CONSTANT", 1, "OP_CONSTANT", 2, "OP_CLOSURE", 3, 1, 1, "OP_CLOSURE", 4, 1, 3, 1, 2, "OP_GET_LOCAL", 4, "OP_CALL", 0, "OP_GET_LOCAL", 5, "OP_CALL", 0, "OP_ADD", "OP_PRINT", "OP_POP", "OP_POP", "OP_CLOSE_UPVALUE", "OP_CLOSE_UPVALUE", "OP_CLOSE_UPVALUE", "OP_NIL", "OP_RETURN">>, locals |-> <<2,2,3,3,4,4,5,5,5,5,6,6,6,6,6,6,6,6,6,6,6,6,6,6,6,6,6,5,4,3,2,1,1>>, complete |-> <<1,1,2,2,3,3,4,4,4,4,5,5,5,5,5,5,6,6,6,6,6,6,6,6,6,6,6,5,4,3,2,1,1>>, opcodes |-> {0, 2, 4, 6, 10, 16, 18, 20, 22, 24, 25, 26, 27, 28, 29, 30, 31, 32}, statements |-> {<<2, 2>>, <<4, 3>>, <<6, 4>>, <<10, 5>>, <<16, 6>>, <<26, 6>>, <<31, 1>>}, constants |-> <<<<"number", 1>>, <<"number", 2>>, <<"number", 3>>, <<"function", 2>>, <<"function", 3>>>>],
     [name |-> <<"f","a">>, arity |-> 0, upvalue_count |-> 1, code |-> <<"OP_GET_UPVALUE", 0, "OP_RETURN", "OP_NIL", "OP_RETURN">>, locals |-> <<1,1,1,1,1>>, complete |-> <<1,1,1,1,1>>, opcodes |-> {0, 2, 3, 4}, statements |-> {<<3, 1>>}, constants |-> <<>>],
     [name |-> <<"f">>, arity |-> 0, upvalue_count |-> 2, code |-> <<"OP_GET_UPVALUE", 0, "OP_GET_UPVALUE", 1, "OP_ADD", "OP_RETURN", "OP_NIL", "OP_RETURN">>, locals |-> <<1,1,1,1,1,1,1,1>>, complete |-> <<1,1,1,1,1,1,1,1>>, opcodes |-> {0, 2, 4, 5, 6, 7}, statements |-> {<<6, 1>>}, constants |-> <<>>] >>,

(* undef.lox:
     g = 2;
 *)
  undef |->
  << [name |-> <<>>, arity |-> 0, upvalue_count |-> 0, code |-> <<"OP_CONSTANT", 1, "OP_SET_GLOBAL", 0, "OP_POP", "OP_NIL", "OP_RETURN">>, locals |-> <<1,1,1,1,1,1,1>>, complete |-> <<1,1,1,1,1,1,1>>, opcodes |-> {0, 2, 4, 5, 6}, statements |-> {<<5, 1>>}, constants |-> <<<<"string", <<"g">>>>, <<"number", 2>>>>] >>,

(* defg.lox:
     var g = 1;
 *)
  defg |->
  << [name |-> <<>>, arity |-> 0, upvalue_count |-> 0, code |-> <<"OP_CONSTANT", 1, "OP_DEFINE_GLOBAL", 0, "OP_NIL", "OP_RETURN">>, locals |-> <<1,1,1,1,1,1>>, complete |-> <<1,1,1,1,1,1>>, opcodes |-> {0, 2, 4, 5}, statements |-> {<<4, 1>>}, constants |-> <<<<"string", <<"g">>>>, <<"number", 1>>>>] >>,

(* useg.lox:
     print g;
 *)
  useg |->
  << [name |-> <<>>, arity |-> 0, upvalue_count |-> 0, code |-> <<"OP_GET_GLOBAL", 0, "OP_PRINT", "OP_NIL", "OP_RETURN">>, locals |-> <<1,1,1,1,1>>, complete |-> <<1,1,1,1,1>>, opcodes |-> {0, 2, 3, 4}, statements |-> {<<3, 1>>}, constants |-> <<<<"string", <<"g">>>>>>] >>,

(* logic.lox:
     { var n = 0;
       print nil and (n = 1); print false and (n = 2); print n;
       print 0 and (n = 3); print "" and (n = 4);
       print 5 or (n = 6); print n;
       print nil or (n = 7); print false or (n = 8); }
 *)
  logic |->
  << [name |-> <<>>, arity |-> 0, upvalue_count |-> 0, code |-> <<"OP_CONSTANT", 0, "OP_NIL", "OP_JUMP_IF_FALSE", 0, 5, "OP_POP", "OP_CONSTANT", 1, "OP_SET_LOCAL", 1, "OP_PRINT", "OP_FALSE", "OP_JUMP_IF_FALSE", 0, 5, "OP_POP", "OP_CONSTANT", 2, "OP_SET_LOCAL", 1, "OP_PRINT", "OP_GET_LOCAL", 1, "OP_PRINT", "OP_CONSTANT", 3, "OP_JUMP_IF_FALSE", 0, 5, "OP_POP", "OP_CONSTANT", 4, "OP_SET_LOCAL", 1, "OP_PRINT", "OP_CONSTANT", 5, "OP_JUMP_IF_FALSE", 0, 5, "OP_POP", "OP_CONSTANT", 6, "OP_SET_LOCAL", 1, "OP_PRINT", "OP_CONSTANT", 7, "OP_JUMP_IF_FALSE", 0, 3, "OP_JUMP", 0, 5, "OP_POP", "OP_CONSTANT", 8, "OP_SET_LOCAL", 1, "OP_PRINT", "OP_GET_LOCAL", 1, "OP_PRINT", "OP_NIL", "OP_JUMP_IF_FALSE", 0, 3, "OP_JUMP", 0, 5, "OP_POP", "OP_CONSTANT", 9, "OP_SET_LOCAL", 1, "OP_PRINT", "OP_FALSE", "OP_JUMP_IF_FALSE", 0, 3, "OP_JUMP", 0, 5, "OP_POP", "OP_CONSTANT", 10, "OP_SET_LOCAL", 1, "OP_PRINT", "OP_POP", "OP_NIL", "OP_RETURN">>, locals |-> <<2,2,2,2,2,2,2,2,2,2,2,2,2,2,2,2,2,2,2,2,2,2,2,2,2,2,2,2,2,2,2,2,2,2,2,2,2,2,2,2,2,2,2,2,2,2,2,2,2,2,2,2,2,2,2,2,2,2,2,2,2,2,2,2,2,2,2,2,2,2,2,2,2,2,2,2,2,2,2,2,2,2,2,2,2,2,2,2,2,2,2,1,1>>, complete |-> <<1,1,2,2,2,2,2,2,2,2,2,2,2,2,2,2,2,2,2,2,2,2,2,2,2,2,2,2,2,2,2,2,2,2,2,2,2,2,2,2,2,2,2,2,2,2,2,2,2,2,2,2,2,2,2,2,2,2,2,2,2,2,2,2,2,2,2,2,2,2,2,2,2,2,2,2,2,2,2,2,2,2,2,2,2,2,2,2,2,2,2,1,1>>, opcodes |-> {0, 2, 3, 6, 7, 9, 11, 12, 13, 16, 17, 19, 21, 22, 24, 25, 27, 30, 31, 33, 35, 36, 38, 41, 42, 44, 46, 47, 49, 52, 55, 56, 58, 60, 61, 63, 64, 65, 68, 71, 72, 74, 76, 77, 78, 81, 84, 85, 87, 89, 90, 91, 92}, statements |-> {<<2, 2>>, <<12, 2>>, <<22, 2>>, <<25, 2>>, <<36, 2>>, <<47, 2>>, <<61, 2>>, <<64, 2>>, <<77, 2>>, <<90, 2>>, <<91, 1>>}, constants |-> <<<<"number", 0>>, <<"number", 1>>, <<"number", 2>>, <<"number", 0>>, <<"number", 3>>, <<"string", <<>>>>, <<"number", 4>>, <<"number", 5>>, <<"number", 6>>, <<"number", 7>>, <<"number", 8>>>>] >>,

(* concat.lox:
     print "a" + "b" + "c";
 *)
  concat |->
  << [name |-> <<>>, arity |-> 0, upvalue_count |-> 0, code |-> <<"OP_CONSTANT", 0, "OP_CONSTANT", 1, "OP_ADD", "OP_CONSTANT", 2, "OP_ADD", "OP_PRINT", "OP_NIL", "OP_RETURN">>, locals |-> <<1,1,1,1,1,1,1,1,1,1,1>>, complete |-> <<1,1,1,1,1,1,1,1,1,1,1>>, opcodes |-> {0, 2, 4, 5, 7, 8, 9, 10}, statements |-> {<<9, 1>>}, constants |-> <<<<"string", <<"a">>>>, <<"string", <<"b">>>>, <<"string", <<"c">>>>>>] >>,

(* klass.lox:
     class A {}
 *)
  klass |->
  << [name |-> <<>>, arity |-> 0, upvalue_count |-> 0, code |-> <<"OP_CLASS", 0, "OP_DEFINE_GLOBAL", 0, "OP_GET_GLOBAL", 1, "OP_POP", "OP_NIL", "OP_RETURN">>, locals |-> <<1,1,1,1,1,1,1,1,1>>, complete |-> <<1,1,1,1,1,1,1,1,1>>, opcodes |-> {0, 2, 4, 6, 7, 8}, statements |-> {<<7, 1>>}, constants |-> <<<<"string", <<"A">>>>, <<"string", <<"A">>>>>>] >>,

(* for.lox:
     {
       var n = 0;
       fun init() { print 0; return n; }
       fun cond(i) { print 1; return i < 2; }
       fun inc(i) { print 3; return i + 1; }
       for (var i = init(); cond(i); i = inc(i)) { print 2; }
       print 4;
     }
 *)
  for |->
  << [name |-> <<>>, arity |-> 0, upvalue_count |-> 0, code |-> <<"OP_CONSTANT", 0, "OP_CLOSURE", 1, 1, 1, "OP_CLOSURE", 2, "OP_CLOSURE", 3, "OP_GET_LOCAL", 2, "OP_CALL", 0, "OP_GET_LOCAL", 3, "OP_GET_LOCAL", 5, "OP_CALL", 1, "OP_JUMP_IF_FALSE", 0, 22, "OP_POP", "OP_JUMP", 0, 12, "OP_GET_LOCAL", 4, "OP_GET_LOCAL", 5, "OP_CALL", 1, "OP_SET_LOCAL", 5, "OP_POP", "OP_LOOP", 0, 25, "OP_CONSTANT", 4, "OP_PRINT", "OP_LOOP", 0, 18, "OP_POP", "OP_POP", "OP_CONSTANT", 5, "OP_PRINT", "OP_POP", "OP_POP", "OP_POP", "OP_CLOSE_UPVALUE", "OP_NIL", "OP_RETURN">>, locals |-> <<2,2,3,3,3,3,4,4,5,5,6,6,6,6,6,6,6,6,6,6,6,6,6,6,6,6,6,6,6,6,6,6,6,6,6,6,6,6,6,6,6,6,6,6,6,6,6,5,5,5,5,4,3,2,1,1>>, complete |-> <<1,1,2,2,2,2,3,3,4,4,5,5,5,5,6,6,6,6,6,6,6,6,6,6,6,6,6,6,6,6,6,6,6,6,6,6,6,6,6,6,6,6,6,6,6,6,6,5,5,5,5,4,3,2,1,1>>, opcodes |-> {0, 2, 6, 8, 10, 12, 14, 16, 18, 20, 23, 24, 27, 29, 31, 33, 35, 36, 39, 41, 42, 45, 46, 47, 49, 50, 51, 52, 53, 54, 55}, statements |-> {<<2, 2>>, <<6, 3>>, <<8, 4>>, <<10, 5>>, <<42, 6>>, <<47, 5>>, <<50, 5>>, <<54, 1>>}, constants |-> <<<<"number", 0>>, <<"function", 2>>, <<"function", 3>>, <<"function", 4>>, <<"number", 2>>, <<"number", 4>>>>],
     [name |-> <<"i","n","i","t">>, arity |-> 0, upvalue_count |-> 1, code |-> <<"OP_CONSTANT", 0, "OP_PRINT", "OP_GET_UPVALUE", 0, "OP_RETURN", "OP_NIL", "OP_RETURN">>, locals |-> <<1,1,1,1,1,1,1,1>>, complete |-> <<1,1,1,1,1,1,1,1>>, opcodes |-> {0, 2, 3, 5, 6, 7}, statements |-> {<<3, 1>>, <<6, 1>>}, constants |-> <<<<"number", 0>>>>],
     [name |-> <<"c","o","n","d">>, arity |-> 1, upvalue_count |-> 0, code |-> <<"OP_CONSTANT", 0, "OP_PRINT", "OP_GET_LOCAL", 1, "OP_CONSTANT", 1, "OP_LESS", "OP_RETURN", "OP_NIL", "OP_RETURN">>, locals |-> <<2,2,2,2,2,2,2,2,2,2,2>>, complete |-> <<2,2,2,2,2,2,2,2,2,2,2>>, opcodes |-> {0, 2, 3, 5, 7, 8, 9, 10}, statements |-> {<<3, 2>>, <<9, 2>>}, constants |-> <<<<"number", 1>>, <<"number", 2>>>>],
     [name |-> <<"i","n","c">>, arity |-> 1, upvalue_count |-> 0, code |-> <<"OP_CONSTANT", 0, "OP_PRINT", "OP_GET_LOCAL", 1, "OP_CONSTANT", 1, "OP_ADD", "OP_RETURN", "OP_NIL", "OP_RETURN">>, locals |-> <<2,2,2,2,2,2,2,2,2,2,2>>, complete |-> <<2,2,2,2,2,2,2,2,2,2,2>>, opcodes |-> {0, 2, 3, 5, 7, 8, 9, 10}, statements |-> {<<3, 2>>, <<9, 2>>}, constants |-> <<<<"number", 3>>, <<"number", 1>>>>] >>,

(* bad.lox:
     var g = 1; print ; g = 2;
 *)
  bad |->
  << [name |-> <<>>, arity |-> 0, upvalue_count |-> 0, code |-> <<"OP_CONSTANT", 1, "OP_DEFINE_GLOBAL", 0, "OP_PRINT", "OP_CONSTANT", 3, "OP_SET_GLOBAL", 2, "OP_POP", "OP_NIL", "OP_RETURN">>, locals |-> <<1,1,1,1,1,1,1,1,1,1,1,1>>, complete |-> <<1,1,1,1,1,1,1,1,1,1,1,1>>, opcodes |-> {0, 2, 4, 5, 7, 9, 10, 11}, statements |-> {<<4, 1>>, <<5, 1>>, <<10, 1>>}, constants |-> <<<<"string", <<"g">>>>, <<"number", 1>>, <<"string", <<"g">>>>, <<"number", 2>>>>] >>
  ]

----
\* The machine state handed through a handler, and the heap (object.h)

S == [stack |-> stack, stack_top |-> stack_top, frames |-> frames,
      open_upvalues |-> open_upvalues, globals |-> globals, strings |-> strings,
      objects |-> objects, gray_stack |-> gray_stack, heap |-> heap,
      next_id |-> next_id, out |-> out, err |-> err, gc_lost |-> gc_lost,
      gc_leaked |-> gc_leaked, uaf |-> uaf,
      current |-> current,
      ret |-> NULL]        \* the value a called function returns

Commit(s) ==
    /\ stack' = s.stack
    /\ stack_top' = s.stack_top
    /\ frames' = s.frames
    /\ open_upvalues' = s.open_upvalues
    /\ globals' = s.globals
    /\ strings' = s.strings
    /\ objects' = s.objects
    /\ gray_stack' = s.gray_stack
    /\ heap' = s.heap
    /\ next_id' = s.next_id
    /\ out' = s.out
    /\ err' = s.err
    /\ gc_lost' = s.gc_lost
    /\ gc_leaked' = s.gc_leaked
    /\ uaf' = s.uaf
    /\ current' = s.current

IsLive(s, id) == id \in DOMAIN s.heap
Deref(s, id) == IF IsLive(s, id) THEN s.heap[id] ELSE
    \* what a read through a pointer to freed memory finds
    [type |-> "freed", is_marked |-> FALSE, length |-> 0, chars |-> <<>>,
     arity |-> 0, upvalue_count |-> 0, name |-> NULL,
     chunk |-> [code |-> <<>>, constants |-> <<>>, locals |-> <<>>,
                complete |-> <<>>, opcodes |-> {}, statements |-> {}],
     function |-> NULL, upvalues |-> <<>>,
     location |-> 0 - 1, closed |-> NIL_VAL, next |-> NULL]

OBJ_TYPE(s, v) == Deref(s, AS_OBJ(v)).type
IS_STRING(s, v) == IS_OBJ(v) /\ OBJ_TYPE(s, v) = "string"
IS_CLOSURE(s, v) == IS_OBJ(v) /\ OBJ_TYPE(s, v) = "closure"
IS_NATIVE(s, v) == IS_OBJ(v) /\ OBJ_TYPE(s, v) = "native"

Range(f) == {f[i] : i \in DOMAIN f}

\* The characters printf writes for an integer ("%d", and "%g" of such a double)
RECURSIVE Digits(_)
Digits(n) ==
    LET d == <<"0", "1", "2", "3", "4", "5", "6", "7", "8", "9">> IN
    IF n < 0 THEN <<"-">> \o Digits(0 - n)
    ELSE IF n < 10 THEN <<d[n + 1]>>
    ELSE Digits(n \div 10) \o <<d[(n % 10) + 1]>>

\* The bytes printf("%s") reads from a buffer: up to the first terminator.
RECURSIVE CStr(_)
CStr(chars) ==
    IF chars = <<>> \/ Head(chars) = "NUL" THEN <<>>
    ELSE <<Head(chars)>> \o CStr(Tail(chars))

\* first, and then Rest of the state it leaves
Then(first, Rest(_)) == CHOOSE r \in {Rest(s) : s \in {first}} : TRUE

----
\* The collector (memory.c)

markObject(s, object) ==
    IF object = NULL THEN s
    ELSE IF ~IsLive(s, object) THEN [s EXCEPT !.uaf = TRUE]
    ELSE IF s.heap[object].is_marked THEN s
    ELSE [s EXCEPT !.heap[object].is_marked = TRUE,
                   !.gray_stack = Append(@, object)]

markValue(s, value) ==
    IF IS_OBJ(value) THEN markObject(s, AS_OBJ(value)) ELSE s

\* for (i = lo; i <= hi; i++) markValue(values[i]): the loop over lo..hi is
\* the loop over its first half followed by the loop over its second half.
RECURSIVE markValues(_, _, _, _)
markValues(s, values, lo, hi) ==
    IF lo > hi THEN s
    ELSE IF lo = hi THEN markValue(s, values[lo])
    ELSE Then(markValues(s, values, lo, (lo + hi) \div 2),
              LAMBDA half : markValues(half, values, (lo + hi) \div 2 + 1, hi))

markArray(s, array) == markValues(s, array, 1, Len(array))

\* for (i = lo; i <= hi; i++) markObject(ids[i])
RECURSIVE markObjects(_, _, _, _)
markObjects(s, ids, lo, hi) ==
    IF lo > hi THEN s
    ELSE IF lo = hi THEN markObject(s, ids[lo])
    ELSE Then(markObjects(s, ids, lo, (lo + hi) \div 2),
              LAMBDA half : markObjects(half, ids, (lo + hi) \div 2 + 1, hi))


\* blackenObject had it not traced the upvalues of a closure (C3)
blackenObject_shallow(s, object) ==
    LET o == s.heap[object] IN
    CASE o.type = "closure" -> markObject(s, o.function)
      [] o.type = "function" -> markArray(markObject(s, o.name), o.chunk.constants)
      [] o.type = "upvalue" -> markValue(s, o.closed)
      [] OTHER -> s

blackenObject(s, object) ==
    LET o == s.heap[object] IN
    CASE o.type = "closure" ->
            markObjects(markObject(s, o.function), o.upvalues, 1, o.upvalue_count)
      [] o.type = "function" -> markArray(markObject(s, o.name), o.chunk.constants)
      [] o.type = "upvalue" -> markValue(s, o.closed)
      [] OTHER -> s

RECURSIVE markOpenUpvalues(_, _)
markOpenUpvalues(s, upvalue) ==
    IF upvalue = NULL THEN s
    ELSE IF ~IsLive(s, upvalue) THEN [s EXCEPT !.uaf = TRUE]
    ELSE markOpenUpvalues(markObject(s, upvalue), s.heap[upvalue].next)

\* for each entry: markObject(entry->key); markValue(entry->value). Entries
\* are the entries in the order markTable visits them (by address here), each
\* as its key followed by its value
markTable(s) ==
    LET keys == SelectSeq([id \in 1..(s.next_id - 1) |-> id],
                          LAMBDA id : id \in DOMAIN s.globals)
        Entries == [i \in 1..(2 * Len(keys)) |->
                       IF i % 2 = 1 THEN OBJ_VAL(keys[(i + 1) \div 2])
                       ELSE s.globals[keys[i \div 2]]]
    IN markValues(s, Entries, 1, 2 * Cardinality(DOMAIN s.globals))

markCompilerRoots(s) == markObjects(s, s.current, 1, Len(s.current))

markRoots(s) ==
    Then(markValues(s, s.stack, 1, s.stack_top), LAMBDA s1 :
    Then(markObjects(s1, [i \in 1..Len(s.frames) |-> s.frames[i].closure],
                     1, Len(s.frames)), LAMBDA s2 :
    Then(markOpenUpvalues(s2, s.open_upvalues), LAMBDA s3 :
    Then(markTable(s3), LAMBDA s4 :
    markCompilerRoots(s4)))))

\* Up to n turns of the loop: n turns are half of them followed by the rest
RECURSIVE traceReferencesFor(_, _)
traceReferencesFor(s, n) ==
    IF Len(s.gray_stack) = 0 \/ n = 0 THEN s
    ELSE IF n = 1  \* one turn of the loop of traceReferences
    THEN blackenObject([s EXCEPT !.gray_stack = SubSeq(@, 1, Len(@) - 1)],
                       s.gray_stack[Len(s.gray_stack)])
    ELSE Then(traceReferencesFor(s, n \div 2),
              LAMBDA half : traceReferencesFor(half, n - n \div 2))

\* while (vm.gray_count > 0): an object is grayed once, when it is marked, so
\* the loop ends within as many turns as there are objects.
traceReferences(s) == traceReferencesFor(s, Cardinality(DOMAIN s.heap))

tableRemoveWhite(s) ==
    [s EXCEPT !.strings = {k \in @ : IsLive(s, k) /\ s.heap[k].is_marked}]

\* freeObject on each of the objects `unreached`
freeObject(s, unreached) ==
    [s EXCEPT !.heap = [id \in DOMAIN @ \ unreached |-> @[id]]]

\* sweep had it left the mark bit of the survivors set (C22)
sweep_marked(s) ==
    LET marked(id) == s.heap[id].is_marked
        unreached == {id \in Range(s.objects) : ~marked(id)}
        s1 == [s EXCEPT !.objects = SelectSeq(@, marked)]
    IN freeObject(s1, unreached)

sweep(s) ==
    LET marked(id) == s.heap[id].is_marked
        unreached == {id \in Range(s.objects) : ~marked(id)}
        s1 == [s EXCEPT !.objects = SelectSeq(@, marked),
                        !.heap = [id \in DOMAIN @ |->
                                    IF @[id].is_marked THEN [@[id] EXCEPT !.is_marked = FALSE]
                                    ELSE @[id]]]
    IN freeObject(s1, unreached)

\* The objects a value, or an object, refers to (for the statement of reachability)
ValueRefs(v) == IF IS_OBJ(v) THEN {AS_OBJ(v)} ELSE {}

RECURSIVE OpenList(_, _)
OpenList(s, upvalue) ==
    IF upvalue = NULL \/ ~IsLive(s, upvalue) THEN <<>>
    ELSE <<upvalue>> \o OpenList(s, s.heap[upvalue].next)

RECURSIVE ReachClosure(_, _)
ReachClosure(s, ids) ==
    LET grow(more) == IF more = ids THEN ids ELSE ReachClosure(s, more)
        ObjRefs(id) ==
            LET o == Deref(s, id) IN
            CASE o.type = "closure" -> ({o.function} \cup Range(o.upvalues)) \ {NULL}
              [] o.type = "function" ->
                    ({o.name} \ {NULL})
                    \cup UNION {ValueRefs(o.chunk.constants[i]) :
                                i \in DOMAIN o.chunk.constants}
              [] o.type = "upvalue" -> ValueRefs(o.closed)
              [] OTHER -> {}
    IN grow(ids \cup UNION {ObjRefs(id) : id \in ids})

Reachable(s) ==
    LET Roots ==
            UNION {ValueRefs(s.stack[i]) : i \in 1..s.stack_top}
            \cup {s.frames[i].closure : i \in 1..Len(s.frames)}
            \cup Range(OpenList(s, s.open_upvalues))
            \cup DOMAIN s.globals
            \cup UNION {ValueRefs(s.globals[k]) : k \in DOMAIN s.globals}
            \cup Range(s.current)
    IN ReachClosure(s, Roots) \cap DOMAIN s.heap

\* collectGarbage had it gone from tracing to sweep without tableRemoveWhite (C21)
collectGarbage_unpurged(s) ==
    LET record(swept, kept) ==
            [kept EXCEPT !.gc_lost = @ \cup (Reachable(s) \ Range(kept.objects)),
                         !.gc_leaked = @ \cup (Range(kept.objects) \ Reachable(swept))]
    IN Then(markRoots(s), LAMBDA marked :
       Then(traceReferences(marked), LAMBDA traced :
       Then(sweep(traced), LAMBDA kept : record(traced, kept))))

\* gc_lost and gc_leaked record, for every cycle, the objects reachable at its
\* start that it freed, and the objects it kept that sweep found unreachable.
collectGarbage(s) ==
    LET record(swept, kept) ==
            [kept EXCEPT !.gc_lost = @ \cup (Reachable(s) \ Range(kept.objects)),
                         !.gc_leaked = @ \cup (Range(kept.objects) \ Reachable(swept))]
    IN Then(markRoots(s), LAMBDA marked :
       Then(traceReferences(marked), LAMBDA traced :
       Then(tableRemoveWhite(traced), LAMBDA white :
       Then(sweep(white), LAMBDA kept : record(white, kept)))))

\* ALLOCATE: reallocate(NULL, 0, size) with size > 0, which may collect first
ALLOCATE(s, gc) == IF gc THEN collectGarbage(s) ELSE s

\* What reallocate(ptr, old_size, new_size) returns and leaves of the block, for
\* m.ptr and m.size and a realloc() that answers with the address answer.ptr and
\* leaves answer.fresh in the bytes it adds
reallocate(m, new_size, answer) ==
    IF new_size = 0
    THEN [ptr |-> NULL, size |-> 0, block |-> <<>>, new_size |-> new_size]
    ELSE IF new_size <= m.size
    THEN [ptr |-> NULL, size |-> 0, block |-> <<>>, new_size |-> new_size]
    ELSE [ptr |-> answer.ptr, size |-> new_size,
          block |-> [i \in 1..new_size |->
                        IF i <= m.size THEN m.block[i] ELSE answer.fresh[i]],
          new_size |-> new_size]

----
\* Objects, strings and tables (object.h, table.h)

allocateObject(s, object, gc) ==
    LET link(s1) == [s1 EXCEPT !.heap = (s1.next_id :> object) @@ @,
                               !.objects = <<s1.next_id>> \o @,
                               !.next_id = @ + 1,
                               !.ret = s1.next_id]
    IN link(ALLOCATE(s, gc))

newFunction(s, gc) ==
    allocateObject(s, [type |-> "function", is_marked |-> FALSE, arity |-> 0,
                       upvalue_count |-> 0, name |-> NULL,
                       chunk |-> [code |-> <<>>, constants |-> <<>>, locals |-> <<>>,
                                  complete |-> <<>>, opcodes |-> {},
                                  statements |-> {}]], gc)

newNative(s, function, gc) ==
    allocateObject(s, [type |-> "native", is_marked |-> FALSE, function |-> function], gc)

newClosure(s, function, gc) ==
    LET n == Deref(s, function).upvalue_count IN
    allocateObject(s, [type |-> "closure", is_marked |-> FALSE, function |-> function,
                       upvalues |-> [i \in 1..n |-> NULL], upvalue_count |-> n], gc)

newUpvalue(s, slot, gc) ==
    allocateObject(s, [type |-> "upvalue", is_marked |-> FALSE, location |-> slot,
                       closed |-> NIL_VAL, next |-> NULL], gc)

tableFindString(s, chars, length) ==
    LET same(k) == /\ Deref(s, k).length = length
                   /\ Len(Deref(s, k).chars) >= length
                   /\ SubSeq(Deref(s, k).chars, 1, length) = SubSeq(chars, 1, length)
        first(found) == IF found = {} THEN NULL
                        ELSE CHOOSE k \in found : \A j \in found : k <= j
    IN first({k \in s.strings : same(k)})

allocateString(s, chars, length, gc) ==
    LET intern(s1) == [s1 EXCEPT !.strings = @ \cup {s1.ret}]
    IN intern(allocateObject(s, [type |-> "string", is_marked |-> FALSE,
                                 length |-> length, chars |-> chars], gc))

copyString(s, chars, gc) ==
    LET copy(interned) ==
            IF interned # NULL THEN [s EXCEPT !.ret = interned]
            ELSE allocateString(s, chars \o <<"NUL">>, Len(chars), gc)
    IN copy(tableFindString(s, chars, Len(chars)))

takeString(s, chars, length, gc) ==
    LET take(interned) ==
            IF interned # NULL THEN [s EXCEPT !.ret = interned]
            ELSE allocateString(s, chars, length, gc)
    IN take(tableFindString(s, chars, length))

\* findEntry reads the hash of the key it is given
findEntry(s, key) == [s EXCEPT !.uaf = @ \/ ~IsLive(s, key)]

tableGet(s, key) == key \in DOMAIN s.globals

tableSet(s, key, value, gc) ==
    LET is_new_key == key \notin DOMAIN s.globals
        s1 == IF is_new_key THEN ALLOCATE(s, gc) ELSE s
    IN [findEntry(s1, key) EXCEPT !.globals = (key :> value) @@ @, !.ret = is_new_key]

tableDelete(s, key) ==
    [findEntry(s, key) EXCEPT !.globals = [k \in DOMAIN @ \ {key} |-> @[k]]]

----
\* The virtual machine (vm.c)


\* resetStack had it left the open upvalues where they were (C10)
resetStack_stack(s) ==
    [s EXCEPT !.stack_top = 0, !.frames = <<>>]

resetStack(s) ==
    [s EXCEPT !.stack_top = 0, !.frames = <<>>, !.open_upvalues = NULL]

runtimeError(s, message) ==
    resetStack([s EXCEPT !.err = message])

push(s, value) ==
    [s EXCEPT !.stack = IF s.stack_top < Len(@) THEN [@ EXCEPT ![s.stack_top + 1] = value]
                        ELSE Append(@, value),
              !.stack_top = @ + 1]

pop(s) == [s EXCEPT !.stack_top = @ - 1]

peek(s, distance) == s.stack[s.stack_top - distance]

frame_count(s) == Len(s.frames)


\* call had it not compared arg_count with the arity (C8)
call_unchecked(s, closure, arg_count) ==
    IF frame_count(s) = FRAMES_MAX
    THEN [runtimeError(s, <<"Stack overflow.">>) EXCEPT !.ret = FALSE]
    ELSE [s EXCEPT !.frames = Append(@, [closure |-> closure, ip |-> 0,
                                         slots |-> s.stack_top - arg_count - 1]),
                   !.ret = TRUE]

\* call had it compared frame_count with FRAMES_MAX one frame late (C9)
call_deep(s, closure, arg_count) ==
    LET function == Deref(s, Deref(s, closure).function) IN
    IF arg_count # function.arity
    THEN [runtimeError(s, <<"Expected ">> \o Digits(function.arity)
                               \o <<" arguments but got ">> \o Digits(arg_count) \o <<".">>)
            EXCEPT !.ret = FALSE]
    ELSE IF frame_count(s) > FRAMES_MAX
    THEN [runtimeError(s, <<"Stack overflow.">>) EXCEPT !.ret = FALSE]
    ELSE [s EXCEPT !.frames = Append(@, [closure |-> closure, ip |-> 0,
                                         slots |-> s.stack_top - arg_count - 1]),
                   !.ret = TRUE]

call(s, closure, arg_count) ==
    LET function == Deref(s, Deref(s, closure).function) IN
    IF arg_count # function.arity
    THEN [runtimeError(s, <<"Expected ">> \o Digits(function.arity)
                               \o <<" arguments but got ">> \o Digits(arg_count) \o <<".">>)
            EXCEPT !.ret = FALSE]
    ELSE IF frame_count(s) = FRAMES_MAX
    THEN [runtimeError(s, <<"Stack overflow.">>) EXCEPT !.ret = FALSE]
    ELSE [s EXCEPT !.frames = Append(@, [closure |-> closure, ip |-> 0,
                                         slots |-> s.stack_top - arg_count - 1]),
                   !.ret = TRUE]

clockNative(tick) == NUMBER_VAL(tick)

callValue(s, callee, arg_count, tick) ==
    IF IS_CLOSURE(s, callee) THEN call(s, AS_OBJ(callee), arg_count)
    ELSE IF IS_NATIVE(s, callee)
    THEN LET value == clockNative(tick)
             s1 == [s EXCEPT !.stack_top = @ - (arg_count + 1)]
         IN [push(s1, value) EXCEPT !.ret = TRUE]
    ELSE [runtimeError(s, <<"Can only call functions and classes.">>) EXCEPT !.ret = FALSE]

\* The loop of captureUpvalue: << prev_upvalue, upvalue >> when it ends
RECURSIVE findUpvalue(_, _, _, _)
findUpvalue(s, prev_upvalue, upvalue, local) ==
    IF upvalue # NULL /\ Deref(s, upvalue).location > local
    THEN findUpvalue(s, upvalue, Deref(s, upvalue).next, local)
    ELSE <<prev_upvalue, upvalue>>


\* captureUpvalue had it linked a new upvalue at the head of the list (C2)
captureUpvalue_head(s, local, gc) ==
    LET insert(s1) == [s1 EXCEPT !.heap[s1.ret].next = s.open_upvalues,
                                 !.open_upvalues = s1.ret]
        capture(upvalue) ==
            IF upvalue # NULL /\ Deref(s, upvalue).location = local
            THEN [s EXCEPT !.ret = upvalue]
            ELSE insert(newUpvalue(s, local, gc))
        found(at) == capture(at[2])
    IN found(findUpvalue(s, NULL, s.open_upvalues, local))

\* captureUpvalue had it made a new upvalue for every capture (C5)
captureUpvalue_fresh(s, local, gc) ==
    LET insert(prev_upvalue, upvalue, s1) ==
            IF prev_upvalue = NULL
            THEN [s1 EXCEPT !.heap[s1.ret].next = upvalue,
                            !.open_upvalues = s1.ret]
            ELSE [s1 EXCEPT !.heap[s1.ret].next = upvalue,
                            !.heap[prev_upvalue].next = s1.ret]
        capture(prev_upvalue, upvalue) ==
            insert(prev_upvalue, upvalue, newUpvalue(s, local, gc))
        found(at) == capture(at[1], at[2])
    IN found(findUpvalue(s, NULL, s.open_upvalues, local))

captureUpvalue(s, local, gc) ==
    LET insert(prev_upvalue, upvalue, s1) ==
            IF prev_upvalue = NULL
            THEN [s1 EXCEPT !.heap[s1.ret].next = upvalue,
                            !.open_upvalues = s1.ret]
            ELSE IF IsLive(s1, prev_upvalue)
            THEN [s1 EXCEPT !.heap[s1.ret].next = upvalue,
                            !.heap[prev_upvalue].next = s1.ret]
            ELSE [s1 EXCEPT !.heap[s1.ret].next = upvalue, !.uaf = TRUE]
        capture(prev_upvalue, upvalue) ==
            IF upvalue # NULL /\ Deref(s, upvalue).location = local
            THEN [s EXCEPT !.ret = upvalue]
            ELSE insert(prev_upvalue, upvalue, newUpvalue(s, local, gc))
        found(at) == capture(at[1], at[2])
    IN found(findUpvalue(s, NULL, s.open_upvalues, local))


\* closeUpvalues had it moved the location without copying the slot (C4)
RECURSIVE closeUpvalues_lose(_, _)
closeUpvalues_lose(s, last) ==
    IF s.open_upvalues # NULL /\ Deref(s, s.open_upvalues).location >= last
    THEN LET upvalue == s.open_upvalues IN
         closeUpvalues_lose(
                [s EXCEPT !.heap[upvalue].location = 0 - 1,
                          !.open_upvalues = s.heap[upvalue].next], last)
    ELSE s

\* closeUpvalues had it compared the location with > last (C19)
RECURSIVE closeUpvalues_above(_, _)
closeUpvalues_above(s, last) ==
    IF s.open_upvalues # NULL /\ Deref(s, s.open_upvalues).location > last
    THEN LET upvalue == s.open_upvalues IN
         IF ~IsLive(s, upvalue) THEN [s EXCEPT !.uaf = TRUE, !.open_upvalues = NULL]
         ELSE closeUpvalues_above(
                [s EXCEPT !.heap[upvalue].closed = s.stack[s.heap[upvalue].location + 1],
                          !.heap[upvalue].location = 0 - 1,
                          !.open_upvalues = s.heap[upvalue].next], last)
    ELSE s

RECURSIVE closeUpvalues(_, _)
closeUpvalues(s, last) ==
    IF s.open_upvalues # NULL /\ Deref(s, s.open_upvalues).location >= last
    THEN LET upvalue == s.open_upvalues IN
         IF ~IsLive(s, upvalue) THEN [s EXCEPT !.uaf = TRUE, !.open_upvalues = NULL]
         ELSE closeUpvalues(
                [s EXCEPT !.heap[upvalue].closed = s.stack[s.heap[upvalue].location + 1],
                          !.heap[upvalue].location = 0 - 1,
                          !.open_upvalues = s.heap[upvalue].next], last)
    ELSE s

\* isFalsey had it taken the number 0 for false as well (C14)
isFalsey_zero(value) ==
    IS_NIL(value) \/ (IS_BOOL(value) /\ ~AS_BOOL(value)) \/ value = NUMBER_VAL(0)

isFalsey(value) == IS_NIL(value) \/ (IS_BOOL(value) /\ ~AS_BOOL(value))

valuesEqual(a, b) ==
    IF a.type # b.type THEN FALSE
    ELSE CASE a.type = "bool" -> AS_BOOL(a) = AS_BOOL(b)
           [] a.type = "nil" -> TRUE
           [] a.type = "number" -> AS_NUMBER(a) = AS_NUMBER(b)
           [] a.type = "obj" -> AS_OBJ(a) = AS_OBJ(b)
           [] OTHER -> FALSE

\* `uninit` is the byte malloc left where the terminator was meant to go;
\* gc[1] is the collection ALLOCATE may run, gc[2] the one takeString may run.
concatenate(s, uninit, gc) ==
    LET b == AS_OBJ(peek(s, 0))
        a == AS_OBJ(peek(s, 1))
        bytes(s2, o) == IF IsLive(s2, o)
                        THEN SubSeq(s2.heap[o].chars, 1, s2.heap[o].length)
                        ELSE <<"?">>
        pushed(s3) == push(s3, OBJ_VAL(s3.ret))
        \* memcpy twice; chars[length = '\0'] stores nothing and leaves length 0
        copy(s2) == pushed(takeString(
                        [s2 EXCEPT !.uaf = @ \/ ~IsLive(s2, a) \/ ~IsLive(s2, b)],
                        bytes(s2, a) \o bytes(s2, b) \o <<uninit>>, 0, gc[2]))
    IN copy(ALLOCATE(pop(pop(s)), gc[1]))     \* ALLOCATE(char, length + 1)

----
\* Printing (value.c printValue, object.h printObject)

printFunction(s, function) ==
    LET name == Deref(s, function).name IN
    IF name = NULL THEN <<"<", "s", "c", "r", "i", "p", "t", ">">>
    ELSE <<"<", "f", "n", " ">> \o CStr(Deref(s, name).chars) \o <<">">>

printObject(s, value) ==
    LET o == Deref(s, AS_OBJ(value)) IN
    CASE o.type = "string" -> CStr(o.chars)
      [] o.type = "function" -> printFunction(s, AS_OBJ(value))
      [] o.type = "closure" -> printFunction(s, o.function)
      [] o.type = "native" -> <<"<", "n", "a", "t", "i", "v", "e", " ", "f", "n", ">">>
      [] o.type = "upvalue" -> <<"u", "p", "v", "a", "l", "u", "e">>
      [] OTHER -> <<"?">>

printValue(s, value) ==
    LET text == CASE IS_BOOL(value) -> IF AS_BOOL(value) THEN <<"t", "r", "u", "e">>
                                       ELSE <<"f", "a", "l", "s", "e">>
                  [] IS_NIL(value) -> <<"n", "i", "l">>
                  [] IS_NUMBER(value) -> Digits(AS_NUMBER(value))
                  [] OTHER -> printObject(s, value)
    IN [s EXCEPT !.out = Append(@, text),
                 !.uaf = @ \/ (IS_OBJ(value) /\ ~IsLive(s, AS_OBJ(value)))]

----
\* compile (compiler.c): the function objects and constants of a source

Sources == {"counter", "shared", "strings", "adderr", "arity", "recurse",
            "negerr", "flow", "order", "undef", "defg", "useg", "logic", "concat",
            "klass", "for",
            "bad"}

Program(src) == Programs[src]

had_error(src) == src = "bad"

\* What the compiler does to the heap while it compiles function k of prog, in
\* the order it does it: initCompiler, then one step for each constant it adds
\* (a nested function is compiled where its declaration stands), then endCompiler.
RECURSIVE CompileSteps(_, _)
RECURSIVE ConstantSteps(_, _, _)

CompileSteps(prog, k) ==
    <<[op |-> "initCompiler", k |-> k]>>
    \o ConstantSteps(prog, k, 1)
    \o <<[op |-> "endCompiler", k |-> k]>>

ConstantSteps(prog, k, i) ==
    IF i > Len(prog[k].constants) THEN <<>>
    ELSE LET c == prog[k].constants[i] IN
         (CASE c[1] = "function" -> CompileSteps(prog, c[2])
            [] c[1] = "number" -> <<[op |-> "number", value |-> c[2]]>>
            [] c[1] = "string" -> <<[op |-> "string", chars |-> c[2]]>>)
         \o ConstantSteps(prog, k, i + 1)

Steps == [src \in Sources |-> CompileSteps(Program(src), 1)]

GROW_CAPACITY(capacity) == IF capacity < 8 THEN 8 ELSE capacity * 2

\* The capacity of an array that has grown, from none, to hold count elements
RECURSIVE Grown(_, _)
Grown(capacity, count) ==
    IF capacity >= count THEN capacity ELSE Grown(GROW_CAPACITY(capacity), count)

\* writeValueArray on the constants of a function: GROW_ARRAY, which may collect,
\* when the array is full, and then the store
writeValueArray(s, function, value, gc) ==
    LET count == Len(s.heap[function].chunk.constants)
        store(s1) == [s1 EXCEPT !.heap[function].chunk.constants = Append(@, value)]
    IN store(IF Grown(0, count) < count + 1 THEN ALLOCATE(s, gc) ELSE s)

\* addConstant(currentChunk(), value)
addConstant(s, function, value, gc) ==
    writeValueArray(s, function, value, gc)

\* gc[1] is whether newFunction() collects, gc[2] whether copyString does.
initCompiler(s, prog, k, gc) ==
    LET named(s2) == [s2 EXCEPT !.heap[s2.current[Len(s2.current)]].name = s2.ret]
        enter(s1) ==
            named(IF prog[k].name # <<>>
                  THEN copyString([s1 EXCEPT !.current = Append(@, s1.ret)],
                                  prog[k].name, gc[2])
                  ELSE [s1 EXCEPT !.current = Append(@, s1.ret), !.ret = NULL])
    IN enter(newFunction(s, gc[1]))

\* endCompiler, and in function() the makeConstant of the OP_CLOSURE it emits.
\* With the code the chunk keeps what the compiler knew when it emitted each
\* byte: locals is current->local_count, complete the number of those locals
\* whose declaration was finished (the parameters, and the locals at the end of
\* the last declaration()), opcodes the offsets at which it emitted an opcode
\* (the other bytes are operands), and statements the pairs of code offset and
\* local_count at the end of each declaration() and statement().
\* (The chunk's code is written here at once: a collection at the growth of the
\* code array finds the function, and all its chunk holds, under `current`.)
endCompiler(s, prog, k, gc) ==
    LET function == s.current[Len(s.current)]
        ended == [s EXCEPT !.heap[function].arity = prog[k].arity,
                           !.heap[function].upvalue_count = prog[k].upvalue_count,
                           !.heap[function].chunk.code = prog[k].code,
                           !.heap[function].chunk.locals = prog[k].locals,
                           !.heap[function].chunk.complete = prog[k].complete,
                           !.heap[function].chunk.opcodes = prog[k].opcodes,
                           !.heap[function].chunk.statements = prog[k].statements,
                           !.current = SubSeq(@, 1, Len(@) - 1),
                           !.ret = function]
        emitted(s1) == [s1 EXCEPT !.ret = function]
    IN IF Len(s.current) > 1
       THEN emitted(addConstant(ended, s.current[Len(s.current) - 1],
                                OBJ_VAL(function), gc))
       ELSE ended

\* One step of the compiler: gc[1] and gc[2] are whether the first and the second
\* allocation of the step collect.
compileStep(s, prog, step, gc) ==
    LET add(s1) == addConstant(s1, s1.current[Len(s1.current)], OBJ_VAL(s1.ret), gc[2]) IN
    CASE step.op = "initCompiler" -> initCompiler(s, prog, step.k, gc)
      [] step.op = "number" ->
            addConstant(s, s.current[Len(s.current)], NUMBER_VAL(step.value), gc[1])
      [] step.op = "string" -> add(copyString(s, step.chars, gc[1]))
      [] step.op = "endCompiler" -> endCompiler(s, prog, step.k, gc[1])

\* compile had it returned the function of a source with an error (C11)
compile_always(s, src) ==
    endCompiler(s, Program(src), 1, FALSE)

\* The end of compile(): endCompiler() of the script, and NULL after an error
compile(s, src) ==
    LET outcome(s1) == IF had_error(src) THEN [s1 EXCEPT !.ret = NULL] ELSE s1
    IN outcome(endCompiler(s, Program(src), 1, FALSE))

----
\* initVM, and the session

defineNative(s, name, function) ==
    LET pushed(s1) == push(s1, OBJ_VAL(s1.ret))
        define(s4) == pop(pop(tableSet(s4, AS_OBJ(s4.stack[1]), s4.stack[2], FALSE)))
    IN define(pushed(newNative(pushed(copyString(s, name, FALSE)), function, FALSE)))

initVM ==
    LET s == [stack |-> <<>>, stack_top |-> 0, frames |-> <<>>, open_upvalues |-> NULL,
              globals |-> <<>>, strings |-> {}, objects |-> <<>>, gray_stack |-> <<>>,
              heap |-> <<>>, next_id |-> 1, out |-> <<>>, err |-> <<>>,
              gc_lost |-> {}, gc_leaked |-> {}, uaf |-> FALSE, current |-> <<>>,
              ret |-> NULL]
    IN defineNative(resetStack(s), <<"c", "l", "o", "c", "k">>, "clockNative")

\* The machine after initVM()
Started ==
    /\ stack = initVM.stack
    /\ stack_top = initVM.stack_top
    /\ frames = initVM.frames
    /\ open_upvalues = initVM.open_upvalues
    /\ globals = initVM.globals
    /\ strings = initVM.strings
    /\ objects = initVM.objects
    /\ gray_stack = initVM.gray_stack
    /\ heap = initVM.heap
    /\ next_id = initVM.next_id
    /\ out = initVM.out
    /\ err = initVM.err
    /\ gc_lost = initVM.gc_lost
    /\ gc_leaked = initVM.gc_leaked
    /\ uaf = initVM.uaf
    /\ current = initVM.current
    /\ parsed = 0
    /\ session = <<>>
    /\ pc = "idle"
    /\ result = "none"
    /\ lines = 0
    /\ source = "none"

Init ==
    /\ Started
    /\ mem = [ptr |-> NULL, size |-> 0, block |-> <<>>, new_size |-> 0]
    /\ emit = NULL /\ chunk = NULL /\ parser = NULL /\ scanner = NULL /\ deep = NULL

\* interpret(source): compile(source) begins
Interpret(src) ==
    /\ pc = "idle"
    /\ lines < MaxLines
    /\ Commit([S EXCEPT !.out = <<>>, !.err = <<>>])
    /\ pc' = "compile"
    /\ result' = "none"
    /\ lines' = lines + 1
    /\ source' = src
    /\ parsed' = 0
    /\ UNCHANGED <<session, mem, emit, chunk, parser, scanner, deep>>

\* compile(): the next declaration, function or constant of the source
Compile(gc) ==
    /\ pc = "compile"
    /\ parsed + 1 < Len(Steps[source])
    /\ Commit(compileStep(S, Program(source), Steps[source][parsed + 1], gc))
    /\ parsed' = parsed + 1
    /\ UNCHANGED <<pc, result, lines, source, session, mem, emit, chunk, parser, scanner, deep>>

\* interpret(source) from the return of compile() up to its call of run()
Execute(gc) ==
    /\ pc = "compile"
    /\ parsed + 1 = Len(Steps[source])
    /\ \E s1 \in {compile(S, source)} :
          IF s1.ret = NULL
          THEN /\ Commit(s1)
               /\ pc' = "idle"
               /\ result' = "INTERPRET_COMPILE_ERROR"
               /\ session' = Append(session, [source |-> source,
                                               result |-> "INTERPRET_COMPILE_ERROR"])
          ELSE \E s3 \in {newClosure(push(s1, OBJ_VAL(s1.ret)), s1.ret, gc)} :
                  /\ Commit(call(push(pop(s3), OBJ_VAL(s3.ret)), s3.ret, 0))
                  /\ pc' = "run"
                  /\ result' = "none"
                  /\ UNCHANGED session
    /\ parsed' = parsed + 1
    /\ UNCHANGED <<lines, source, mem, emit, chunk, parser, scanner, deep>>

----
\* run(): one action per case of the dispatch switch

Frame(s) == s.frames[Len(s.frames)]
Chunk(s) == Deref(s, Deref(s, Frame(s).closure).function).chunk

\* The opcode the next READ_BYTE() of run() returns
\* (When ip is at an operand byte, run() takes the byte for an instruction;
\* which one depends on the numbers of the OpCode enumeration, and chunk.h of
\* this compiler's opcodes is not among the sources: the model follows such a
\* run no further.)
Opcode ==
    IF /\ pc = "run" /\ frames # <<>>
       /\ Frame(S).ip < Len(Chunk(S).code)
       /\ Frame(S).ip \in Chunk(S).opcodes
    THEN Chunk(S).code[Frame(S).ip + 1]
    ELSE "none"

\* The k-th operand byte of the current instruction
Operand(k) == Chunk(S).code[Frame(S).ip + 1 + k]

\* The state after the opcode and n operand bytes have been read
READ_BYTES(s, n) == [s EXCEPT !.frames[Len(s.frames)].ip = @ + 1 + n]
READ_SHORT == Operand(1) * 256 + Operand(2)
READ_CONSTANT == Chunk(S).constants[Operand(1) + 1]
READ_STRING == AS_OBJ(READ_CONSTANT)

Continue(s) ==
    /\ Commit(s)
    /\ UNCHANGED <<pc, result, lines, source, parsed, session, mem, emit, chunk, parser, scanner, deep>>

Return(s, outcome) ==
    /\ Commit(s)
    /\ pc' = "idle"
    /\ result' = outcome
    /\ session' = Append(session, [source |-> source, result |-> outcome])
    /\ UNCHANGED <<lines, source, parsed, mem, emit, chunk, parser, scanner, deep>>

Fail(s, message) == Return(runtimeError(s, message), "INTERPRET_RUNTIME_ERROR")

OpConstant ==
    /\ Opcode = "OP_CONSTANT"
    /\ Continue(push(READ_BYTES(S, 1), READ_CONSTANT))

OpNil ==
    /\ Opcode = "OP_NIL"
    /\ Continue(push(READ_BYTES(S, 0), NIL_VAL))

OpTrue ==
    /\ Opcode = "OP_TRUE"
    /\ Continue(push(READ_BYTES(S, 0), BOOL_VAL(TRUE)))

OpFalse ==
    /\ Opcode = "OP_FALSE"
    /\ Continue(push(READ_BYTES(S, 0), BOOL_VAL(FALSE)))

OpPop ==
    /\ Opcode = "OP_POP"
    /\ Continue(pop(READ_BYTES(S, 0)))

OpGetLocal ==
    /\ Opcode = "OP_GET_LOCAL"
    /\ LET slot == Operand(1) IN
       Continue(push(READ_BYTES(S, 1), stack[Frame(S).slots + slot + 1]))

OpSetLocal ==
    /\ Opcode = "OP_SET_LOCAL"
    /\ LET slot == Operand(1) IN
       Continue([READ_BYTES(S, 1) EXCEPT !.stack[Frame(S).slots + slot + 1] = peek(S, 0)])

OpGetGlobal ==
    /\ Opcode = "OP_GET_GLOBAL"
    /\ LET name == READ_STRING
           s1 == findEntry(READ_BYTES(S, 1), name)
       IN IF ~tableGet(s1, name)
          THEN Fail(s1, <<"Undefined variable '">> \o CStr(Deref(s1, name).chars) \o <<"'.">>)
          ELSE Continue(push(s1, s1.globals[name]))

OpDefineGlobal(gc) ==
    /\ Opcode = "OP_DEFINE_GLOBAL"
    /\ LET name == READ_STRING
           s1 == READ_BYTES(S, 1)
       IN Continue(pop(tableSet(s1, name, peek(s1, 0), gc)))

\* OP_SET_GLOBAL had it left the entry tableSet made for an undefined name (C12)
OpSetGlobal_keep(gc) ==
    /\ Opcode = "OP_SET_GLOBAL"
    /\ LET name == READ_STRING
           s1 == READ_BYTES(S, 1)
           assigned(s2) ==
               IF s2.ret
               THEN Fail(s2, <<"Undefined variable '">> \o CStr(Deref(s2, name).chars) \o <<"'.">>)
               ELSE Continue(s2)
       IN assigned(tableSet(s1, name, peek(s1, 0), gc))

OpSetGlobal(gc) ==
    /\ Opcode = "OP_SET_GLOBAL"
    /\ LET name == READ_STRING
           s1 == READ_BYTES(S, 1)
           assigned(s2) ==
               IF s2.ret
               THEN Fail(tableDelete(s2, name),
                         <<"Undefined variable '">> \o CStr(Deref(s2, name).chars) \o <<"'.">>)
               ELSE Continue(s2)
       IN assigned(tableSet(s1, name, peek(s1, 0), gc))


OpGetUpvalue ==
    /\ Opcode = "OP_GET_UPVALUE"
    /\ LET slot == Operand(1)
           upvalue == Deref(S, Frame(S).closure).upvalues[slot + 1]
           u == Deref(S, upvalue)
           \* *upvalue->location
           value == IF u.location < 0 THEN u.closed ELSE stack[u.location + 1]
       IN Continue(push(READ_BYTES(S, 1), value))

OpSetUpvalue ==
    /\ Opcode = "OP_SET_UPVALUE"
    /\ LET slot == Operand(1)
           upvalue == Deref(S, Frame(S).closure).upvalues[slot + 1]
           s1 == READ_BYTES(S, 1)
       IN Continue(IF ~IsLive(s1, upvalue) THEN [s1 EXCEPT !.uaf = TRUE]
                   ELSE IF s1.heap[upvalue].location < 0
                   THEN [s1 EXCEPT !.heap[upvalue].closed = peek(S, 0)]
                   ELSE [s1 EXCEPT !.stack[s1.heap[upvalue].location + 1] = peek(S, 0)])

OpEqual ==
    /\ Opcode = "OP_EQUAL"
    /\ LET b == peek(S, 0)
           a == peek(S, 1)
       IN Continue(push(pop(pop(READ_BYTES(S, 0))), BOOL_VAL(valuesEqual(a, b))))


\* BINARY_OP(valueType, op); a / b on doubles is followed for operands whose
\* quotient is a whole number
BINARY_OP(op) ==
    LET s1 == READ_BYTES(S, 0)
        abs(x) == IF x < 0 THEN 0 - x ELSE x
        Quotient(a, b) == IF (a < 0) = (b < 0) THEN abs(a) \div abs(b)
                          ELSE 0 - (abs(a) \div abs(b))
    IN
    IF ~IS_NUMBER(peek(s1, 0)) \/ ~IS_NUMBER(peek(s1, 1))
    THEN Fail(s1, <<"Operands must be numbers.">>)
    ELSE LET b == AS_NUMBER(peek(s1, 0))
             a == AS_NUMBER(peek(s1, 1))
             value == CASE op = ">" -> BOOL_VAL(a > b)
                        [] op = "<" -> BOOL_VAL(a < b)
                        [] op = "-" -> NUMBER_VAL(a - b)
                        [] op = "*" -> NUMBER_VAL(a * b)
                        [] op = "/" -> NUMBER_VAL(Quotient(a, b))
         IN Continue(push(pop(pop(s1)), value))

OpGreater ==
    /\ Opcode = "OP_GREATER"
    /\ BINARY_OP(">")

OpLess ==
    /\ Opcode = "OP_LESS"
    /\ BINARY_OP("<")

OpAdd(uninit, gc) ==
    /\ Opcode = "OP_ADD"
    /\ LET s1 == READ_BYTES(S, 0) IN
       IF IS_STRING(s1, peek(s1, 0)) /\ IS_STRING(s1, peek(s1, 1))
       THEN Continue(concatenate(s1, uninit, gc))
       ELSE IF IS_NUMBER(peek(s1, 0)) /\ IS_NUMBER(peek(s1, 1))
       THEN LET b == AS_NUMBER(peek(s1, 0))
                a == AS_NUMBER(peek(s1, 1))
            IN Continue(push(pop(pop(s1)), NUMBER_VAL(a + b)))
       ELSE Fail(s1, <<"Operands must be two numbers or two strings.">>)

OpSubtract ==
    /\ Opcode = "OP_SUBTRACT"
    /\ BINARY_OP("-")

OpMultiply ==
    /\ Opcode = "OP_MULTIPLY"
    /\ BINARY_OP("*")

OpDivide ==
    /\ Opcode = "OP_DIVIDE"
    /\ BINARY_OP("/")

OpNot ==
    /\ Opcode = "OP_NOT"
    /\ LET s1 == READ_BYTES(S, 0) IN
       Continue(push(pop(s1), BOOL_VAL(isFalsey(peek(s1, 0)))))

OpNegate ==
    /\ Opcode = "OP_NEGATE"
    /\ LET s1 == READ_BYTES(S, 0) IN
       IF ~IS_NUMBER(peek(s1, 0))
       THEN Fail(s1, <<"Operand must be a number.">>)
       ELSE Continue(push(pop(s1), NUMBER_VAL(0 - AS_NUMBER(peek(s1, 0)))))

OpPrint ==
    /\ Opcode = "OP_PRINT"
    /\ LET s1 == READ_BYTES(S, 0) IN
       Continue(printValue(pop(s1), peek(s1, 0)))

OpJump ==
    /\ Opcode = "OP_JUMP"
    /\ LET offset == READ_SHORT IN
       Continue([READ_BYTES(S, 2) EXCEPT !.frames[Len(frames)].ip = @ + offset])

\* OP_JUMP_IF_FALSE had it jumped whatever the condition (C24)
OpJumpIfFalse_always ==
    /\ Opcode = "OP_JUMP_IF_FALSE"
    /\ LET offset == READ_SHORT
           s1 == READ_BYTES(S, 2)
       IN Continue([s1 EXCEPT !.frames[Len(frames)].ip = @ + offset])

OpJumpIfFalse ==
    /\ Opcode = "OP_JUMP_IF_FALSE"
    /\ LET offset == READ_SHORT
           s1 == READ_BYTES(S, 2)
       IN Continue(IF isFalsey(peek(s1, 0))
                   THEN [s1 EXCEPT !.frames[Len(frames)].ip = @ + offset]
                   ELSE s1)

OpLoop ==
    /\ Opcode = "OP_LOOP"
    /\ LET offset == READ_SHORT IN
       Continue([READ_BYTES(S, 2) EXCEPT !.frames[Len(frames)].ip = @ - offset])

OpCall(tick) ==
    /\ Opcode = "OP_CALL"
    /\ LET arg_count == Operand(1)
           s1 == READ_BYTES(S, 1)
           called(s2) == IF ~s2.ret THEN Return(s2, "INTERPRET_RUNTIME_ERROR")
                         ELSE Continue(s2)
       IN called(callValue(s1, peek(s1, arg_count), arg_count, tick))

\* The loop of OP_CLOSURE over the upvalues i .. upvalue_count-1 of closure;
\* code[at], code[at + 1] are the is_local and index bytes of upvalue i.
RECURSIVE captureUpvalues(_, _, _, _, _, _)
captureUpvalues(s, closure, i, code, at, gc) ==
    IF i >= Deref(s, closure).upvalue_count THEN s
    ELSE LET is_local == code[at]
             index == code[at + 1]
             store(s1) == IF IsLive(s1, closure)
                          THEN [s1 EXCEPT !.heap[closure].upvalues[i + 1] = s1.ret]
                          ELSE [s1 EXCEPT !.uaf = TRUE]
         IN captureUpvalues(
                store(IF is_local # 0
                      THEN captureUpvalue(s, Frame(s).slots + index, gc[i + 2])
                      ELSE [s EXCEPT !.ret =
                               Deref(s, Frame(s).closure).upvalues[index + 1]]),
                closure, i + 1, code, at + 2, gc)

OpClosure(gc) ==
    /\ Opcode = "OP_CLOSURE"
    /\ LET function == AS_OBJ(READ_CONSTANT)
           n == Deref(S, function).upvalue_count
           capture(s1) == captureUpvalues(push(s1, OBJ_VAL(s1.ret)), s1.ret, 0,
                                          Chunk(S).code, Frame(S).ip + 3, gc)
       IN Continue(capture(newClosure(READ_BYTES(S, 1 + 2 * n), function, gc[1])))

\* OP_CLOSE_UPVALUE had it closed the upvalue and left the local on the stack (C17)
OpCloseUpvalue_keep ==
    /\ Opcode = "OP_CLOSE_UPVALUE"
    /\ LET s1 == READ_BYTES(S, 0) IN
       Continue(closeUpvalues(s1, s1.stack_top - 1))

OpCloseUpvalue ==
    /\ Opcode = "OP_CLOSE_UPVALUE"
    /\ LET s1 == READ_BYTES(S, 0) IN
       Continue(pop(closeUpvalues(s1, s1.stack_top - 1)))


\* OP_RETURN had it left the script's closure on the stack (C1)
OpReturn_keep ==
    /\ Opcode = "OP_RETURN"
    /\ LET s1 == READ_BYTES(S, 0)
           value == peek(S, 0)
           slots == Frame(S).slots
           returned(s3) ==
               IF frame_count(s3) = 0
               THEN Return(s3, "INTERPRET_OK")
               ELSE Continue(push([s3 EXCEPT !.stack_top = slots], value))
           unwind(s2) == returned([s2 EXCEPT !.frames = SubSeq(@, 1, Len(@) - 1)])
       IN unwind(closeUpvalues(pop(s1), slots))

OpReturn ==
    /\ Opcode = "OP_RETURN"
    /\ LET s1 == READ_BYTES(S, 0)
           value == peek(S, 0)
           slots == Frame(S).slots
           returned(s3) ==
               IF frame_count(s3) = 0
               THEN Return(pop(s3), "INTERPRET_OK")
               ELSE Continue(push([s3 EXCEPT !.stack_top = slots], value))
           unwind(s2) == returned([s2 EXCEPT !.frames = SubSeq(@, 1, Len(@) - 1)])
       IN unwind(closeUpvalues(pop(s1), slots))


\* One pass of the loop of run(): the next instruction
\* The instructions the switch of run() has a case for
Cases ==
    {"OP_CONSTANT", "OP_NIL", "OP_TRUE", "OP_POP", "OP_GET_LOCAL", "OP_SET_LOCAL",
     "OP_GET_GLOBAL", "OP_DEFINE_GLOBAL", "OP_FALSE", "OP_SET_GLOBAL",
     "OP_GET_UPVALUE", "OP_SET_UPVALUE", "OP_EQUAL", "OP_GREATER", "OP_LESS",
     "OP_ADD", "OP_SUBTRACT", "OP_MULTIPLY", "OP_DIVIDE", "OP_NOT", "OP_NEGATE",
     "OP_PRINT", "OP_JUMP", "OP_JUMP_IF_FALSE", "OP_LOOP", "OP_CALL", "OP_CLOSURE",
     "OP_CLOSE_UPVALUE", "OP_RETURN"}

\* An instruction the switch has no case for (it has no default): READ_BYTE()
\* has taken the opcode, nothing else happens, and the loop reads the next byte.
NoCase ==
    /\ Opcode \notin Cases \cup {"none"}
    /\ Continue(READ_BYTES(S, 0))

Step ==
    \/ NoCase
    \/ OpConstant
    \/ OpNil
    \/ OpTrue
    \/ OpFalse
    \/ OpPop
    \/ OpGetLocal
    \/ OpSetLocal
    \/ OpGetGlobal
    \/ \E gc \in BOOLEAN : OpDefineGlobal(gc)
    \/ \E gc \in BOOLEAN : OpSetGlobal(gc)
    \/ OpGetUpvalue
    \/ OpSetUpvalue
    \/ OpEqual
    \/ OpGreater
    \/ OpLess
    \/ \E uninit \in {"NUL", "?"}, gc \in [1..2 -> BOOLEAN] : OpAdd(uninit, gc)
    \/ OpSubtract
    \/ OpMultiply
    \/ OpDivide
    \/ OpNot
    \/ OpNegate
    \/ OpPrint
    \/ OpJump
    \/ OpJumpIfFalse
    \/ OpLoop
    \/ \E tick \in {0, 1} : OpCall(tick)
    \/ \E gc \in [1..3 -> BOOLEAN] : OpClosure(gc)
    \/ OpCloseUpvalue
    \/ OpReturn

\* The REPL of main(): a line is interpreted, and run() executes it
Next ==
    \/ \E src \in Sources : Interpret(src)
    \/ \E gc \in [1..2 -> BOOLEAN] : Compile(gc)
    \/ \E gc \in BOOLEAN : Execute(gc)
    \/ Step

Spec == Init /\ [][Next]_vars

\* reallocate on its own: a block of any size and contents, and calls of
\* reallocate(ptr, old_size, new_size) on it with the size the caller holds
\* The blocks reallocate is tried on: none, or one of up to MaxSize bytes
ReallocInit ==
    /\ Started
    /\ mem \in {[ptr |-> NULL, size |-> 0, block |-> <<>>, new_size |-> 0]}
               \cup {[ptr |-> 1, size |-> Len(b), block |-> b, new_size |-> Len(b)] :
                        b \in UNION {[1..k -> {"a", "b", "c"}] : k \in 1..MaxSize}}
    /\ emit = NULL /\ chunk = NULL /\ parser = NULL /\ scanner = NULL /\ deep = NULL

ReallocNext ==
    \E new_size \in 0..MaxSize, ptr \in {1, 2, 3},
       fresh \in [1..MaxSize -> {"a", "b", "c"}], gc \in BOOLEAN :
        /\ mem' = reallocate(mem, new_size, [ptr |-> ptr, fresh |-> fresh])
        /\ Commit(IF new_size > mem.size THEN ALLOCATE(S, gc) ELSE S)
        /\ UNCHANGED <<pc, result, lines, source, parsed, session, emit, chunk, parser,
                       scanner, deep>>

ReallocSpec == ReallocInit /\ [][ReallocNext]_vars

\* The jumps of the compiler on their own. Of the chunk, emit keeps count, the
\* bytes of the jump instructions (the code between them is only counted), and
\* parser.had_error; pending are the offsets emitJump has returned and
\* patchJump has not had yet, starts the loop_start values taken, and targets
\* where the compiler meant each jump to go, by the offset of its opcode.
UINT16_MAX == 65535

\* The number of calls of the emit functions (and loop_start assignments)
MaxEmits == 5

Put(code, offset, byte) == (offset :> byte) @@ code

emitByte(c, byte) ==
    [c EXCEPT !.code = Put(@, c.count, byte), !.count = @ + 1]

\* errorAt had it reported while the parser panics (C26)
errorAt_always(p, token, message) ==
    [p EXCEPT !.panic_mode = TRUE, !.had_error = TRUE,
              !.log = Append(@, [kind |-> "error", message |-> message,
                                 token |-> token])]

\* errorAt: silent in panic mode, otherwise the message goes to stderr (log)
errorAt(p, token, message) ==
    IF p.panic_mode
    THEN p
    ELSE [p EXCEPT !.panic_mode = TRUE, !.had_error = TRUE,
                   !.log = Append(@, [kind |-> "error", message |-> message,
                                      token |-> token])]

error(p, message) == errorAt(p, p.previous, message)

errorAtCurrent(p, message) == errorAt(p, p.current, message)

emitLoop(c, loop_start) ==
    LET c1 == emitByte(c, "OP_LOOP")
        offset == c1.count - loop_start + 2
        c2 == IF offset > UINT16_MAX THEN error(c1, "Loop body too large.") ELSE c1
    IN emitByte(emitByte(c2, (offset \div 256) % 256), offset % 256)

emitJump(c, instruction) ==
    LET c3 == emitByte(emitByte(emitByte(c, instruction), 255), 255)
    IN [c3 EXCEPT !.ret = c3.count - 2]

\* patchJump had it measured the jump from the operand, not from behind it (C23)
patchJump_operand(c, offset) ==
    LET jump == c.count - offset
        c1 == IF jump > UINT16_MAX THEN error(c, "Too much code to jump over.")
              ELSE c
    IN [c1 EXCEPT !.code = Put(Put(@, offset, (jump \div 256) % 256),
                               offset + 1, jump % 256)]

patchJump(c, offset) ==
    LET jump == c.count - offset - 2
        c1 == IF jump > UINT16_MAX THEN error(c, "Too much code to jump over.")
              ELSE c
    IN [c1 EXCEPT !.code = Put(Put(@, offset, (jump \div 256) % 256),
                               offset + 1, jump % 256)]

\* Where run() takes ip from the jump instruction at offset ip, when it jumps:
\* READ_BYTE(), READ_SHORT() into a uint16_t, and frame->ip += or -= offset
Jump(code, ip) ==
    LET offset == (code[ip + 1] * 256 + code[ip + 2]) % 65536
    IN IF code[ip] = "OP_LOOP" THEN ip + 3 - offset ELSE ip + 3 + offset

JumpInit ==
    /\ Started
    /\ mem = [ptr |-> NULL, size |-> 0, block |-> <<>>, new_size |-> 0]
    /\ emit = [count |-> 0, code |-> <<>>, had_error |-> FALSE,
               panic_mode |-> FALSE, previous |-> "TOKEN_EOF", log |-> <<>>,
               pending |-> {},
               starts |-> {}, targets |-> <<>>, emits |-> 0, ret |-> 0]
    /\ chunk = NULL /\ parser = NULL /\ scanner = NULL /\ deep = NULL

\* One call of an emit function by the compiler. Other instructions come one
\* byte at a time, or as many as bring a loop or a jump to the limit of 16
\* bits; int loop_start = currentChunk()->count is the fourth step
JumpNext ==
    LET does(c) ==
            /\ emit.emits < MaxEmits
            /\ emit' = [c EXCEPT !.emits = @ + 1]
            /\ UNCHANGED <<machine, mem, chunk, parser, scanner, deep>>
    IN \/ \E n \in {1, 65532, 65534} : does([emit EXCEPT !.count = @ + n])
       \/ \E instruction \in {"OP_JUMP", "OP_JUMP_IF_FALSE"} :
              LET c == emitJump(emit, instruction)
              IN does([c EXCEPT !.pending = @ \cup {c.ret}])
       \/ \E offset \in emit.pending :
              does([patchJump(emit, offset) EXCEPT
                        !.pending = @ \ {offset},
                        !.targets = Put(@, offset - 1, emit.count)])
       \/ /\ emit.count \notin emit.starts
          /\ does([emit EXCEPT !.starts = @ \cup {emit.count}])
       \/ \E loop_start \in emit.starts :
              does([emitLoop(emit, loop_start) EXCEPT
                        !.targets = Put(@, emit.count, loop_start)])

JumpSpec == JumpInit /\ [][JumpNext]_vars

----
\* A chunk on its own (chunk.c, value.c, makeConstant), with the size in bytes
\* of each block it holds and the collector's count of allocated bytes.
\* bytes_allocated is a size_t: the model keeps the integer whose residue it is,
\* so a negative number is a counter that has wrapped below zero.

UINT8_MAX == 255
sizeof_uint8_t == 1
sizeof_int == 4
sizeof_Value == 16
MaxOps == 3

\* reallocate(ptr, old_size, new_size) on a block of block_size bytes: the
\* counter moves by the sizes passed, the heap by the size the block has
reallocated(c, block_size, old_size, new_size) ==
    [c EXCEPT !.bytes_allocated = @ + new_size - old_size,
              !.held = @ + new_size - block_size]

initChunk(c) ==
    [c EXCEPT !.count = 0, !.capacity = 0, !.code = <<>>, !.lines = <<>>,
              !.code_size = 0, !.lines_size = 0, !.written = <<>>, !.operands = {},
              !.constants = [count |-> 0, capacity |-> 0, size |-> 0]]

\* writeChunk. The lines array is grown as an array of uint8_t and written as
\* an array of int: a store at or behind the end of its block is outside the
\* block (overrun), and whether realloc carries the ints behind the end of the
\* old block over to the new one is the allocator's choice (kept).
writeChunk(c, byte, line, kept) ==
    LET capacity == GROW_CAPACITY(c.capacity)
        carried == [i \in 1..Len(c.lines) |->
                       IF kept \/ i * sizeof_int <= c.lines_size THEN c.lines[i] ELSE 0]
        grown_code(c1) ==
            [reallocated(c1, c1.code_size, sizeof_uint8_t * c1.capacity,
                         sizeof_uint8_t * capacity)
                EXCEPT !.code_size = sizeof_uint8_t * capacity]
        grown_lines(c1) ==
            [reallocated(c1, c1.lines_size, sizeof_uint8_t * c1.capacity,
                         sizeof_uint8_t * capacity)
                EXCEPT !.lines_size = sizeof_uint8_t * capacity, !.lines = carried,
                       !.capacity = capacity]
        c2 == IF c.capacity < c.count + 1 THEN grown_lines(grown_code(c)) ELSE c
    IN [c2 EXCEPT !.code = Append(@, byte), !.lines = Append(@, line),
                  !.overrun = @ \/ (c2.count + 1) * sizeof_int > c2.lines_size,
                  !.written = Append(@, <<byte, line>>),
                  !.count = @ + 1]

\* makeConstant: addConstant (writeValueArray on chunk->constants), then the
\* test of the index it returned
makeConstant(c) ==
    LET array == c.constants
        capacity == GROW_CAPACITY(array.capacity)
        c1 == IF array.capacity < array.count + 1
              THEN [reallocated(c, array.size, sizeof_Value * array.capacity,
                                sizeof_Value * capacity)
                       EXCEPT !.constants.capacity = capacity,
                              !.constants.size = sizeof_Value * capacity]
              ELSE c
        c2 == [c1 EXCEPT !.constants.count = @ + 1]
        constant == c2.constants.count - 1
    IN IF constant > UINT8_MAX
       THEN [error(c2, "Too many constants in one chunk.") EXCEPT !.ret = 0]
       ELSE [c2 EXCEPT !.ret = constant]

\* emitConstant: emitBytes(OP_CONSTANT, makeConstant(value))
emitConstant(c, line, kept) ==
    LET c1 == makeConstant(c)
        c2 == writeChunk(writeChunk(c1, "OP_CONSTANT", line, kept), c1.ret, line, kept)
    IN [c2 EXCEPT !.operands = @ \cup {c1.ret}]

\* n constant expressions in a row
RECURSIVE emitConstants(_, _, _, _)
emitConstants(c, n, line, kept) ==
    LET half == emitConstants(c, n \div 2, line, kept)
    IN IF n = 1 THEN emitConstant(c, line, kept)
       ELSE IF half.count > 0 THEN emitConstants(half, n - n \div 2, line, kept)
       ELSE half

freeChunk(c) ==
    LET c1 == reallocated(c, c.code_size, sizeof_uint8_t * c.capacity, 0)
        c2 == reallocated(c1, c.lines_size, sizeof_int * c.capacity, 0)
    IN initChunk(c2)

ChunkInit ==
    /\ Started
    /\ mem = [ptr |-> NULL, size |-> 0, block |-> <<>>, new_size |-> 0]
    /\ emit = NULL /\ parser = NULL /\ scanner = NULL /\ deep = NULL
    /\ \E held \in {0, 64} :
         chunk = [count |-> 0, capacity |-> 0, code |-> <<>>, lines |-> <<>>,
                  code_size |-> 0, lines_size |-> 0, written |-> <<>>,
                  operands |-> {},
                  constants |-> [count |-> 0, capacity |-> 0, size |-> 0],
                  bytes_allocated |-> held, held |-> held, overrun |-> FALSE,
                  had_error |-> FALSE, panic_mode |-> FALSE,
                  previous |-> "TOKEN_EOF", log |-> <<>>, ret |-> 0, ops |-> 0]

ChunkNext ==
    LET does(c) == /\ chunk.ops < MaxOps
                   /\ chunk' = [c EXCEPT !.ops = @ + 1]
                   /\ UNCHANGED <<machine, mem, emit, parser, scanner, deep>>
    IN \/ \E byte \in {"OP_NIL", "OP_POP"}, line \in {1, 300}, kept \in BOOLEAN :
            does(writeChunk(chunk, byte, line, kept))
       \/ \E n \in {1, 4, 255}, line \in {1, 300}, kept \in BOOLEAN :
            does(emitConstants(chunk, n, line, kept))
       \/ does(freeChunk(chunk))

ChunkSpec == ChunkInit /\ [][ChunkNext]_vars

----
\* The parser's error handling (compiler.c) on the declarations  var x = e ;
\* print e ;  and  e ;  with numbers, names and assignments for e. The scanner
\* is its contract here: the tokens of the source in order, error tokens among
\* them, and TOKEN_EOF for ever at the end.

MaxTokens == 4

\* advance: the loop reports and skips the error tokens
advance(p) ==
    LET RECURSIVE scan(_)
        scan(p1) ==
            LET token == IF p1.pos > Len(p1.tokens) THEN "TOKEN_EOF"
                         ELSE p1.tokens[p1.pos]
                p2 == [p1 EXCEPT !.current = token,
                                 !.pos = IF @ > Len(p1.tokens) THEN @ ELSE @ + 1]
            IN IF token # "TOKEN_ERROR" THEN p2
               ELSE scan(errorAtCurrent(p2, "Unexpected character."))
    IN scan([p EXCEPT !.previous = p.current])

consume(p, type, message) ==
    IF p.current = type THEN advance(p) ELSE errorAtCurrent(p, message)

\* match, with check in it
match(p, type) ==
    IF p.current # type THEN [p EXCEPT !.ret = FALSE] ELSE [advance(p) EXCEPT !.ret = TRUE]

\* expression() is parsePrecedence(PREC_ASSIGNMENT): can_assign holds, the prefix
\* rules are number and variable, and none of the tokens has an infix rule
RECURSIVE parsePrecedence(_)
parsePrecedence(p) ==
    LET p1 == advance(p)
        assigned == match(p1, "TOKEN_EQUAL")
        namedVariable == IF assigned.ret THEN parsePrecedence(assigned) ELSE assigned
        p2 == IF p1.previous = "TOKEN_NUMBER" THEN p1 ELSE namedVariable
        p3 == match(p2, "TOKEN_EQUAL")
    IN IF p1.previous \notin {"TOKEN_NUMBER", "TOKEN_IDENTIFIER"}
       THEN error(p1, "Expect expression.")
       ELSE IF p3.ret THEN error(p3, "Invalid assignment target.") ELSE p3

varDeclaration(p) ==
    LET p1 == consume(p, "TOKEN_IDENTIFIER", "Expect variable name.")
        p2 == match(p1, "TOKEN_EQUAL")
        p3 == IF p2.ret THEN parsePrecedence(p2) ELSE p2
    IN consume(p3, "TOKEN_SEMICOLON", "Expect ';' after variable declaration.")

\* statement, with printStatement and expressionStatement in it
statement(p) ==
    LET p1 == match(p, "TOKEN_PRINT")
        printStatement ==
            consume(parsePrecedence(p1), "TOKEN_SEMICOLON", "Expect ';' after value")
        expressionStatement ==
            consume(parsePrecedence(p1), "TOKEN_SEMICOLON", "Expect ';' after expression.")
    IN IF p1.ret THEN printStatement ELSE expressionStatement

\* synchronize; the log keeps the tokens its loop saw at each turn
synchronize(p) ==
    LET RECURSIVE loop(_)
        loop(p1) ==
            LET entry(kind) ==
                    [kind |-> kind, previous |-> p1.previous, current |-> p1.current]
            IN IF p1.current = "TOKEN_EOF" \/ p1.previous = "TOKEN_SEMICOLON"
                  \/ p1.current \in {"TOKEN_CLASS", "TOKEN_FUN", "TOKEN_VAR",
                                     "TOKEN_FOR", "TOKEN_IF", "TOKEN_WHILE",
                                     "TOKEN_PRINT", "TOKEN_RETURN"}
               THEN [p1 EXCEPT !.log = Append(@, entry("stop"))]
               ELSE loop(advance([p1 EXCEPT !.log = Append(@, entry("skip"))]))
    IN loop([p EXCEPT !.panic_mode = FALSE,
                      !.log = Append(@, [kind |-> "synchronize"])])

declaration(p) ==
    LET p1 == match(p, "TOKEN_VAR")
        p2 == IF p1.ret THEN varDeclaration(p1) ELSE statement(p1)
    IN IF p2.panic_mode THEN synchronize(p2) ELSE p2

\* compile: the state before its first advance(), for each source
ParserInit ==
    /\ Started
    /\ mem = [ptr |-> NULL, size |-> 0, block |-> <<>>, new_size |-> 0]
    /\ emit = NULL /\ chunk = NULL /\ scanner = NULL /\ deep = NULL
    /\ \E tokens \in UNION {[1..n -> {"TOKEN_VAR", "TOKEN_PRINT", "TOKEN_IDENTIFIER",
                                      "TOKEN_NUMBER", "TOKEN_EQUAL", "TOKEN_SEMICOLON",
                                      "TOKEN_ERROR"}] : n \in 0..MaxTokens} :
         parser = [tokens |-> tokens, pos |-> 1, current |-> "none",
                   previous |-> "none", had_error |-> FALSE, panic_mode |-> FALSE,
                   log |-> <<>>, ret |-> FALSE, pc |-> "advance"]

ParserNext ==
    LET does(p, to) == /\ parser' = [p EXCEPT !.pc = to]
                       /\ UNCHANGED <<machine, mem, emit, chunk, scanner, deep>>
    IN \/ parser.pc = "advance" /\ does(advance(parser), "declaration")
       \/ /\ parser.pc = "declaration" /\ parser.current # "TOKEN_EOF"
          /\ does(declaration(match(parser, "TOKEN_EOF")), "declaration")
       \/ /\ parser.pc = "declaration" /\ parser.current = "TOKEN_EOF"
          /\ does(match(parser, "TOKEN_EOF"), "return")

ParserSpec == ParserInit /\ [][ParserNext]_vars

----
\* The scanner (scanner.c) on a source buffer: scanner.start and scanner.current
\* are positions in the buffer, which a NUL ends. scanToken is one step, but
\* for the loop of string(), of which each turn is a step.

MaxChars == 3
MaxLine == 3

\* *scanner.current, scanner.current[1] (peek, peekNext)
Char(sc, i) == IF i > Len(sc.source) THEN "NUL" ELSE sc.source[i]

RECURSIVE skipWhitespace(_)
skipWhitespace(sc) ==
    LET c == Char(sc, sc.current)
        RECURSIVE comment(_)
        comment(sc1) ==
            IF Char(sc1, sc1.current) # "\n" /\ Char(sc1, sc1.current) # "NUL"
            THEN comment([sc1 EXCEPT !.current = @ + 1])
            ELSE sc1
    IN CASE c = " " -> skipWhitespace([sc EXCEPT !.current = @ + 1])
         [] c = "\n" -> skipWhitespace([sc EXCEPT !.line = @ + 1, !.current = @ + 1])
         [] c = "/" /\ Char(sc, sc.current + 1) = "/" -> skipWhitespace(comment(sc))
         [] OTHER -> sc

\* identifierType, for the letters o and r
identifierType(sc) ==
    LET checkKeyword(start, length, rest, type) ==
            IF sc.current - sc.start = start + length
               /\ SubSeq(sc.source, sc.start + start, sc.start + start + length - 1) = rest
            THEN type
            ELSE "TOKEN_IDENTIFIER"
    IN CASE sc.source[sc.start] = "o" -> checkKeyword(1, 1, <<"r">>, "TOKEN_OR")
         [] sc.source[sc.start] = "r" ->
                checkKeyword(1, 5, <<"e", "t", "u", "r", "n">>, "TOKEN_RETURN")
         [] OTHER -> "TOKEN_IDENTIFIER"

makeToken(sc, type) ==
    [sc EXCEPT !.token = [type |-> type, start |-> sc.start,
                          length |-> sc.current - sc.start, line |-> sc.line]]

errorToken(sc, message) ==
    [sc EXCEPT !.token = [type |-> "TOKEN_ERROR", start |-> message,
                          length |-> Len(message), line |-> sc.line]]

\* scanToken up to its return, or up to the call of string(); of the letters
\* and digits isAlpha and isDigit know, the buffers have o, r and 1
scanToken(sc) ==
    LET isAlpha(x) == x \in {"o", "r"}
        isDigit(x) == x \in {"1"}
        sc1 == skipWhitespace(sc)
        sc2 == [sc1 EXCEPT !.start = sc1.current]
        c == Char(sc2, sc2.current)
        sc3 == [sc2 EXCEPT !.current = @ + 1]
        RECURSIVE alphanumerics(_)
        alphanumerics(sc4) ==
            IF isAlpha(Char(sc4, sc4.current)) \/ isDigit(Char(sc4, sc4.current))
            THEN alphanumerics([sc4 EXCEPT !.current = @ + 1])
            ELSE sc4
        RECURSIVE digits(_)
        digits(sc4) ==
            IF isDigit(Char(sc4, sc4.current))
            THEN digits([sc4 EXCEPT !.current = @ + 1])
            ELSE sc4
        identifier == makeToken(alphanumerics(sc3), identifierType(alphanumerics(sc3)))
        whole == digits(sc3)
        number == IF Char(whole, whole.current) = "."
                     /\ isDigit(Char(whole, whole.current + 1))
                  THEN digits([whole EXCEPT !.current = @ + 1])
                  ELSE whole
        equal == IF Char(sc3, sc3.current) = "="
                 THEN makeToken([sc3 EXCEPT !.current = @ + 1], "TOKEN_EQUAL_EQUAL")
                 ELSE makeToken(sc3, "TOKEN_EQUAL")
    IN CASE c = "NUL" -> makeToken(sc2, "TOKEN_EOF")
         [] isAlpha(c) -> identifier
         [] isDigit(c) -> makeToken(number, "TOKEN_NUMBER")
         [] c = ";" -> makeToken(sc3, "TOKEN_SEMICOLON")
         [] c = "." -> makeToken(sc3, "TOKEN_DOT")
         [] c = "/" -> makeToken(sc3, "TOKEN_SLASH")
         [] c = "=" -> equal
         [] c = "\"" -> [sc3 EXCEPT !.pc = "string"]
         [] OTHER -> errorToken(sc3, "Unexpected character.")

\* initScanner, for each source of up to MaxChars characters
ScannerInit ==
    /\ Started
    /\ mem = [ptr |-> NULL, size |-> 0, block |-> <<>>, new_size |-> 0]
    /\ emit = NULL /\ chunk = NULL /\ parser = NULL /\ deep = NULL
    /\ \E buffer \in UNION {[1..n -> {"\"", "\n", " ", "/", "o", "r", "1", ".", ";", "=",
                                      "?"}] : n \in 0..MaxChars} :
         scanner = [source |-> buffer, start |-> 1, current |-> 1, line |-> 1,
                    token |-> [type |-> "none"], pc |-> "scanToken"]

ScannerNext ==
    LET c == Char(scanner, scanner.current)
        does(sc) == scanner' = sc /\ UNCHANGED <<machine, mem, emit, chunk, parser, deep>>
    IN \/ scanner.pc = "scanToken" /\ does(scanToken(scanner))
       \* string(): one turn of  while (peek() != '"' && !isAtEnd())
       \/ /\ scanner.pc = "string" /\ c # "\"" /\ c # "NUL"
          /\ does(IF c = "\n" /\ scanner.line < MaxLine
                  THEN [scanner EXCEPT !.line = @ + 1]
                  ELSE scanner)
       \* string(): behind the loop
       \/ /\ scanner.pc = "string" /\ ~(c # "\"" /\ c # "NUL")
          /\ does([(IF c = "NUL"
                    THEN errorToken(scanner, "Unterminated string.")
                    ELSE makeToken([scanner EXCEPT !.current = @ + 1], "TOKEN_STRING"))
                      EXCEPT !.pc = "scanToken"])

ScannerSpec == ScannerInit /\ [][ScannerNext]_vars

\* a call of scanToken that has begun goes on
ScannerLive == ScannerSpec /\ WF_vars(ScannerNext)

----
\* The height of the stack in a recursion (vm.c): of the machine only
\* vm.stack_top and the slots of vm.frames are followed, in the runs of
\*   fun f() { var a1; ... var aL; if (n == 0) return 0; n = n - 1;
\*             return 1 + (1 + ... f()); }   f();
\* with L locals, t operands waiting for the call, and n calls deep.

UINT8_COUNT == 256
STACK_MAX == FRAMES_MAX * UINT8_COUNT

StackInit ==
    /\ Started
    /\ mem = [ptr |-> NULL, size |-> 0, block |-> <<>>, new_size |-> 0]
    /\ emit = NULL /\ chunk = NULL /\ parser = NULL /\ scanner = NULL
    /\ \E L \in {1, UINT8_COUNT - 1}, t \in {0, 5}, n \in {2, FRAMES_MAX - 1, FRAMES_MAX} :
         deep = [stack_top |-> 1, frames |-> <<[slots |-> 0]>>, L |-> L, t |-> t,
                 n |-> n, pc |-> "call"]

StackNext ==
    LET does(d) == deep' = d /\ UNCHANGED <<machine, mem, emit, chunk, parser, scanner>>
    IN \* var a1; ... var aL;  OP_NIL and push() for each; addLocal allows L
       \* locals behind slot 0
       \/ /\ deep.pc = "locals" /\ 1 + deep.L <= UINT8_COUNT
          /\ does([deep EXCEPT !.stack_top = @ + deep.L, !.pc = "return"])
       \* the operands 1 + (1 + ...: OP_CONSTANT and push() for each
       \/ /\ deep.pc = "return" /\ frame_count(deep) - 1 < deep.n
          /\ does([deep EXCEPT !.stack_top = @ + deep.t, !.pc = "call"])
       \* f(): OP_GET_GLOBAL pushes the callee, OP_CALL 0 is call()
       \/ /\ deep.pc = "call"
          /\ does(IF frame_count(deep) = FRAMES_MAX
                  THEN [deep EXCEPT !.stack_top = 0, !.frames = <<>>, !.pc = "error"]
                  ELSE [deep EXCEPT !.stack_top = @ + 1,
                                    !.frames = Append(@, [slots |-> deep.stack_top]),
                                    !.pc = "locals"])
       \* OP_RETURN: the frame goes, stack_top = frame->slots, push(result); the
       \* caller's OP_ADDs then take its operands off
       \/ /\ deep.pc = "return" /\ frame_count(deep) - 1 >= deep.n
          /\ does([deep EXCEPT !.frames = SubSeq(@, 1, frame_count(deep) - 1),
                               !.stack_top = IF frame_count(deep) = 2
                                             THEN deep.frames[frame_count(deep)].slots + 1
                                             ELSE deep.frames[frame_count(deep)].slots + 1 - deep.t,
                               !.n = 0,
                               !.pc = IF frame_count(deep) = 2 THEN "done" ELSE "return"])

StackSpec == StackInit /\ [][StackNext]_vars

----
\* The claims

C2_OpenUpvaluesDescending ==
    LET list == OpenList(S, open_upvalues) IN
    /\ open_upvalues # NULL => IsLive(S, open_upvalues)
    /\ \A i \in 1..Len(list) :
          /\ heap[list[i]].type = "upvalue"
          /\ heap[list[i]].location >= 0
          /\ heap[list[i]].next # NULL =>
                /\ IsLive(S, heap[list[i]].next)
                /\ heap[list[i]].location > heap[heap[list[i]].next].location

\* order.lox after its second closure: c, b and a are open, b linked in between
C2_ThreeOpen ==
    /\ source = "order"
    /\ Len(OpenList(S, open_upvalues)) = 3

\* C3: no collection frees an object that was reachable from the roots when it
\* began, and none keeps an object that was unreachable when sweep began.
C3_Reachability ==
    gc_lost = {} /\ gc_leaked = {}

\* a collection has freed an object while closures and upvalues stayed
C3_Collected ==
    /\ \E id \in 1..(next_id - 1) : id \notin DOMAIN heap
    /\ \E id \in DOMAIN heap : heap[id].type = "upvalue"

\* C4: the counter closure, called three times after makeCounter has returned,
\* prints 1, 2, 3: each call reads the value the call before wrote.
C4_Counter ==
    source = "counter" /\ pc = "idle" =>
        /\ result = "INTERPRET_OK"
        /\ out = << <<"1">>, <<"2">>, <<"3">> >>

\* counter.lox is over and the closed upvalue of count holds 3
C4_CountedToThree ==
    /\ source = "counter" /\ result = "INTERPRET_OK"
    /\ \E id \in DOMAIN heap : /\ heap[id].type = "upvalue"
                               /\ heap[id].location < 0
                               /\ heap[id].closed = NUMBER_VAL(3)

\* C5: setA and getB capture the same local: after setA("in") both the frame's
\* GET_LOCAL and getB print in, and after the block has closed the slot a write
\* through setA is what getB prints.
C5_Shared ==
    source = "shared" /\ pc = "idle" =>
        /\ result = "INTERPRET_OK"
        /\ out = << <<"i", "n">>, <<"i", "n">>, <<"h", "i">> >>

\* shared.lox is over: two closures hold one closed upvalue
C5_OneUpvalue ==
    /\ source = "shared" /\ result = "INTERPRET_OK"
    /\ \E c1, c2 \in DOMAIN heap :
          /\ c1 # c2
          /\ heap[c1].type = "closure" /\ heap[c1].upvalue_count = 1
          /\ heap[c2].type = "closure" /\ heap[c2].upvalue_count = 1
          /\ heap[c1].upvalues[1] = heap[c2].upvalues[1]
          /\ IsLive(S, heap[c1].upvalues[1])
          /\ heap[heap[c1].upvalues[1]].location < 0

\* C6: two strings of the heap hold the same bytes (their buffers up to the
\* terminator's place) if and only if they are the same object.
C6_Interned ==
    LET Strings == {id \in DOMAIN heap : heap[id].type = "string"}
        bytes(id) == SubSeq(heap[id].chars, 1, Len(heap[id].chars) - 1)
    IN \A s1, s2 \in Strings : (bytes(s1) = bytes(s2)) <=> (s1 = s2)

\* C7: OP_ADD on two strings leaves the interned string of a's bytes followed by
\* b's, of length len(a) + len(b); on two numbers their sum; on anything else the
\* runtime error; a success takes one value off the stack.
C7_OpAdd ==
    [][Opcode = "OP_ADD" =>
        LET b == stack[stack_top]
            a == stack[stack_top - 1]
            bytes(v) == SubSeq(heap[AS_OBJ(v)].chars, 1, heap[AS_OBJ(v)].length)
        IN IF IS_STRING(S, a) /\ IS_STRING(S, b)
           THEN /\ stack_top' = stack_top - 1
                /\ LET r == stack'[stack_top'] IN
                   /\ IS_OBJ(r) /\ AS_OBJ(r) \in DOMAIN heap'
                   /\ AS_OBJ(r) \in strings'
                   /\ heap'[AS_OBJ(r)].type = "string"
                   /\ heap'[AS_OBJ(r)].length = Len(bytes(a)) + Len(bytes(b))
                   /\ heap'[AS_OBJ(r)].chars = bytes(a) \o bytes(b) \o <<"NUL">>
           ELSE IF IS_NUMBER(a) /\ IS_NUMBER(b)
           THEN /\ stack_top' = stack_top - 1
                /\ stack'[stack_top'] = NUMBER_VAL(AS_NUMBER(a) + AS_NUMBER(b))
           ELSE /\ result' = "INTERPRET_RUNTIME_ERROR"
                /\ err' = <<"Operands must be two numbers or two strings.">>
      ]_vars

\* C8: a call of a closure with arg_count other than its arity reports
\* "Expected <arity> arguments but got <arg_count>." and pushes no frame; with
\* arg_count equal to the arity it pushes a frame at the start of the function
\* whose slots begin at stack_top - arg_count - 1, where the callee is.
C8_Call ==
    [][(Opcode = "OP_CALL" /\ IS_CLOSURE(S, peek(S, Operand(1)))) =>
        LET arg_count == Operand(1)
            closure == AS_OBJ(peek(S, arg_count))
            arity == heap[heap[closure].function].arity
        IN IF arg_count # arity
           THEN /\ result' = "INTERPRET_RUNTIME_ERROR"
                /\ err' = <<"Expected ">> \o Digits(arity) \o <<" arguments but got ">>
                              \o Digits(arg_count) \o <<".">>
                /\ Len(frames') <= Len(frames)
           ELSE Len(frames) < FRAMES_MAX =>
                /\ result' = "none"
                /\ Len(frames') = Len(frames) + 1
                /\ frames'[Len(frames')] = [closure |-> closure, ip |-> 0,
                                            slots |-> stack_top - arg_count - 1]
                /\ stack'[stack_top - arg_count] = OBJ_VAL(closure)
                /\ stack_top' = stack_top
      ]_vars

\* arity.lox: f, which takes nothing, was called with one argument
C8_Mismatch ==
    /\ source = "arity" /\ result = "INTERPRET_RUNTIME_ERROR"
    /\ err = <<"Expected ", "0", " arguments but got ", "1", ".">>

\* C9: there are never more than FRAMES_MAX frames; a call with FRAMES_MAX frames
\* active ends the run with "Stack overflow."; and recurse.lox, once f is running,
\* gets there: each step pushes a frame or moves on in the same frame's code,
\* until the one that reports the overflow.
C9_FramesBounded ==
    /\ [](Len(frames) <= FRAMES_MAX)
    /\ [][(/\ Opcode = "OP_CALL"
           /\ IS_CLOSURE(S, peek(S, Operand(1)))
           /\ Operand(1) = heap[heap[AS_OBJ(peek(S, Operand(1)))].function].arity
           /\ Len(frames) = FRAMES_MAX) =>
              /\ pc' = "idle"
              /\ result' = "INTERPRET_RUNTIME_ERROR"
              /\ err' = <<"Stack overflow.">>
         ]_vars
    /\ [][(source = "recurse" /\ pc = "run" /\ Len(frames) >= 2) =>
              \/ /\ pc' = "idle"
                 /\ result' = "INTERPRET_RUNTIME_ERROR"
                 /\ err' = <<"Stack overflow.">>
              \/ /\ pc' = "run"
                 /\ Len(frames') = Len(frames) + 1
              \/ /\ pc' = "run"
                 /\ Len(frames') = Len(frames)
                 /\ frames'[Len(frames')].ip > frames[Len(frames)].ip
                 /\ frames'[Len(frames')].closure = frames[Len(frames)].closure
         ]_vars

\* recurse.lox has been stopped by the overflow
C9_Overflow ==
    /\ source = "recurse" /\ result = "INTERPRET_RUNTIME_ERROR"
    /\ err = <<"Stack overflow.">>

\* C10: after a runtime error the stack is empty, no frame and no open upvalue is
\* left, interpret has returned INTERPRET_RUNTIME_ERROR and run() executes no
\* further instruction.
C10_Reset ==
    result = "INTERPRET_RUNTIME_ERROR" =>
        /\ stack_top = 0
        /\ frames = <<>>
        /\ open_upvalues = NULL
        /\ pc = "idle"
        /\ Opcode = "none"

\* negerr.lox: the negation failed two frames deep, with x captured and open
C10_FailedWithOpenUpvalue ==
    /\ source = "negerr" /\ result = "INTERPRET_RUNTIME_ERROR"
    /\ err = <<"Operand must be a number.">>
    /\ \E id \in DOMAIN heap : heap[id].type = "upvalue" /\ heap[id].location >= 0

\* C11: a source with a compile error is parsed to its end, compile returns NULL
\* and interpret returns INTERPRET_COMPILE_ERROR: none of its bytecode is
\* executed, and from the call of interpret to its return the value stack, the
\* frames and the globals stay as they were.
C11_CompileError ==
    /\ [](had_error(source) =>
            /\ pc # "run"
            /\ out = <<>>
            /\ pc = "idle" => /\ result = "INTERPRET_COMPILE_ERROR"
                              /\ parsed = Len(Steps[source]))
    /\ [][had_error(source') =>
            /\ stack_top' = stack_top
            /\ SubSeq(stack', 1, stack_top') = SubSeq(stack, 1, stack_top)
            /\ frames' = frames
            /\ globals' = globals
         ]_vars

\* bad.lox has been rejected in a session that had defined a global before
C11_Rejected ==
    /\ source = "bad" /\ result = "INTERPRET_COMPILE_ERROR" /\ pc = "idle"
    /\ Cardinality(DOMAIN globals) >= 2
    /\ \E id \in DOMAIN heap : /\ heap[id].type = "function"
                               /\ Len(heap[id].chunk.constants) = 4

\* C12: OP_SET_GLOBAL on a name that is not a global ends the run with the
\* runtime error Undefined variable '<name>'. and leaves the globals as they
\* were: the name is still absent and every other global keeps its value.
C12_SetUndefined ==
    [][(Opcode = "OP_SET_GLOBAL" /\ READ_STRING \notin DOMAIN globals) =>
          /\ pc' = "idle"
          /\ result' = "INTERPRET_RUNTIME_ERROR"
          /\ IsLive(S, READ_STRING) =>
                err' = <<"Undefined variable '">>
                       \o SubSeq(heap[READ_STRING].chars, 1, heap[READ_STRING].length)
                       \o <<"'.">>
          /\ globals' = globals
      ]_vars

\* undef.lox: the assignment to g, which no one had defined, has failed in a
\* session whose globals hold more than the native clock
C12_Undefined ==
    /\ source = "undef" /\ result = "INTERPRET_RUNTIME_ERROR"
    /\ err = <<"Undefined variable '", "g", "'.">>
    /\ Cardinality(DOMAIN globals) >= 2

\* C13: a global that an earlier call of interpret has defined is read by every
\* later call, with the value last given to it: after defg.lox has returned
\* INTERPRET_OK, useg.lox prints 2 if an undef.lox between them has assigned g,
\* and 1 otherwise, whatever calls, failed ones too, lie between.
C13_GlobalsPersist ==
    LET earlier == 1..(Len(session) - 1)
        defined == {i \in earlier : session[i] = [source |-> "defg",
                                                  result |-> "INTERPRET_OK"]}
        last == CHOOSE i \in defined : \A j \in defined : j <= i
        assigned == \E j \in earlier : /\ j > last
                                       /\ session[j] = [source |-> "undef",
                                                        result |-> "INTERPRET_OK"]
    IN (pc = "idle" /\ source = "useg" /\ defined # {}) =>
          /\ result = "INTERPRET_OK"
          /\ out = << IF assigned THEN <<"2">> ELSE <<"1">> >>

\* C14: a and b is a, with b not evaluated, when a is nil or false, and b
\* otherwise; a or b is a, with b not evaluated, when a is neither nil nor
\* false, and b otherwise; 0 and the empty string are not false; the expression
\* leaves one value on the stack. In logic.lox every b assigns n, and n is
\* printed after the operands that must not be evaluated.
C14_Logic ==
    source = "logic" =>
        /\ Opcode = "OP_PRINT" => stack_top = 3
        /\ pc = "idle" =>
              /\ result = "INTERPRET_OK"
              /\ out = << <<"n", "i", "l">>, <<"f", "a", "l", "s", "e">>, <<"0">>,
                          <<"3">>, <<"4">>, <<"5">>, <<"4">>, <<"7">>, <<"8">> >>

\* logic.lox has printed its nine lines and returned
C14_Printed ==
    source = "logic" /\ result = "INTERPRET_OK" /\ Len(out) = 9

\* C15: reallocate frees the block and returns NULL only for new_size 0; for
\* every other new_size, those not above old_size too, it returns a block of
\* new_size bytes whose first min(old_size, new_size) bytes are the old ones.
C15_Reallocate ==
    [][LET kept == IF mem.size < mem'.new_size THEN mem.size ELSE mem'.new_size IN
       IF mem'.new_size = 0 THEN mem'.ptr = NULL
       ELSE /\ mem'.ptr # NULL
            /\ Len(mem'.block) = mem'.new_size
            /\ SubSeq(mem'.block, 1, kept) = SubSeq(mem.block, 1, kept)
      ]_mem

\* C16: no freed object is ever read or written: whatever the running code
\* still uses after an allocation that may collect (concatenate its operands,
\* addConstant the value it adds, OP_CLOSURE the closure and its upvalues,
\* defineNative the name and the native) is reachable from a root.
C16_NoUseAfterFree ==
    uaf = FALSE

\* The stack height of the running frame: the slots from frame->slots up
Height ==
    stack_top - Frame(S).slots

\* An instruction of a live function is about to execute
AtInstruction ==
    pc = "run" /\ frames # <<>> /\ Frame(S).ip < Len(Chunk(S).code)

C18_UpvaluesValid ==
    \A closure \in Reachable(S) :
        heap[closure].type = "closure" =>
            \A i \in 1..Len(heap[closure].upvalues) :
                LET upvalue == heap[closure].upvalues[i] IN
                upvalue # NULL =>
                    /\ IsLive(S, upvalue)
                    /\ \/ heap[upvalue].location < 0
                       \/ /\ heap[upvalue].location < stack_top
                          /\ upvalue \in Range(OpenList(S, open_upvalues))

\* C19: closeUpvalues(base) closes exactly the open upvalues with location >=
\* base: each gets closed set to the value in its slot and its location set to
\* its closed field, and leaves the open list; each open upvalue with location
\* < base stays on the list, unchanged.
C19_CloseUpvalues ==
    [][(Opcode \in {"OP_CLOSE_UPVALUE", "OP_RETURN"}) =>
          (LET open == OpenList(S, open_upvalues)
               \* the argument of the closeUpvalues call: vm.stack_top - 1
               \* in OP_CLOSE_UPVALUE, frame->slots in OP_RETURN
               CloseBase == IF Opcode = "OP_CLOSE_UPVALUE" THEN stack_top - 1
                            ELSE Frame(S).slots
               stays(upvalue) == heap[upvalue].location < CloseBase
               closed(upvalue) ==
                   /\ heap'[upvalue].location < 0
                   /\ heap'[upvalue].closed = stack[heap[upvalue].location + 1]
           IN /\ OpenList(S, open_upvalues)' = SelectSeq(open, stays)
              /\ \A i \in 1..Len(open) :
                    /\ open[i] \in DOMAIN heap'
                    /\ stays(open[i]) => heap'[open[i]] = heap[open[i]]
                    /\ ~stays(open[i]) => closed(open[i]))
      ]_vars

\* order.lox has closed the upvalue of c (slot 3), which holds 3, and the
\* upvalues of b and a are still open
C19_ClosedOne ==
    /\ source = "order"
    /\ pc = "run"
    /\ Len(OpenList(S, open_upvalues)) = 2
    /\ \E upvalue \in DOMAIN heap :
          /\ heap[upvalue].type = "upvalue"
          /\ heap[upvalue].location < 0
          /\ heap[upvalue].closed = NUMBER_VAL(3)

\* C20: when run() is about to read an instruction, ip is at an opcode the
\* compiler emitted, before the end of the chunk, and the switch has a case for
\* it: every instruction consumes exactly its operand bytes.
C20_Dispatch ==
    (pc = "run" /\ frames # <<>>) =>
        /\ Frame(S).ip < Len(Chunk(S).code)
        /\ Frame(S).ip \in Chunk(S).opcodes
        /\ Chunk(S).code[Frame(S).ip + 1] \in Cases

\* C21: the intern table holds no key that refers to a freed string: each
\* collection takes the unmarked keys out of vm.strings after tracing and before
\* sweep frees them.
C21_InternedLive ==
    \A key \in strings : IsLive(S, key) /\ heap[key].type = "string"

\* concat.lox, the first line of the session, is running after a collection has
\* freed one of its strings (nothing else of it can be freed before it returns),
\* and the intern table still has keys
C21_StringFreed ==
    /\ source = "concat" /\ lines = 1 /\ pc = "run"
    /\ \E id \in 1..(next_id - 1) : id \notin DOMAIN heap
    /\ strings # {}

\* C22: between collections the heap is all white: every object on vm.objects
\* has its mark bit clear, and the gray stack is empty.
C22_AllWhite ==
    /\ gray_stack = <<>>
    /\ \A i \in 1..Len(objects) :
          IsLive(S, objects[i]) /\ ~heap[objects[i]].is_marked

\* a collection has freed an object, and closures and strings it had marked
\* are still on vm.objects
C22_Survivors ==
    /\ \E id \in 1..(next_id - 1) : id \notin DOMAIN heap
    /\ \E i \in 1..Len(objects) : heap[objects[i]].type = "closure"
    /\ \E i \in 1..Len(objects) : heap[objects[i]].type = "string"

\* C23: every jump the compiler has patched, and every OP_LOOP it has emitted,
\* takes ip to the target the compiler meant (count at the patch, loop_start)
\* when the distance fits 16 bits, and otherwise parser.had_error is set, so
\* that the chunk is never run.
C23_Jumps ==
    \A ip \in DOMAIN emit.targets :
        LET target == emit.targets[ip]
            distance == IF target > ip THEN target - (ip + 3) ELSE ip + 3 - target
        IN IF distance <= UINT16_MAX
           THEN Jump(emit.code, ip) = target
           ELSE emit.had_error

\* without an error so far, a forward jump over exactly 65535 bytes has been
\* patched
C23_FarJump ==
    /\ ~emit.had_error
    /\ \E ip \in DOMAIN emit.targets :
          emit.code[ip] # "OP_LOOP" /\ emit.targets[ip] - (ip + 3) = UINT16_MAX

\* C24: in for (init; cond; inc) body, init runs once, then cond, body, inc
\* in turn, and the loop ends the first time cond is false; the value of cond
\* is popped on the way into the body and on the way out. In for.lox init, cond,
\* body and inc print 0, 1, 2 and 3, and the statement after the loop prints 4.
C24_For ==
    LET expected == << <<"0">>, <<"1">>, <<"2">>, <<"3">>, <<"1">>, <<"2">>, <<"3">>,
                       <<"1">>, <<"4">> >>
    IN source = "for" =>
        /\ Len(out) <= Len(expected) /\ out = SubSeq(expected, 1, Len(out))
        /\ pc = "idle" => result = "INTERPRET_OK" /\ out = expected
        /\ (Len(frames) = 1 /\ Opcode = "OP_PRINT") =>
              Height = Chunk(S).locals[Frame(S).ip + 1] + 1

\* for.lox has left its loop after two turns and printed 4
C24_LoopLeft ==
    source = "for" /\ pc = "run" /\ Len(out) = 9

\* C25: no chunk's constant pool ever holds more than 256 entries: the attempt
\* to add a 257th reports a compile error, and every constant index emitted
\* into the code names an existing entry below 256.
C25_Pool ==
    /\ chunk.constants.count <= UINT8_MAX + 1
    /\ \A constant \in chunk.operands :
          constant < chunk.constants.count /\ constant <= UINT8_MAX

\* C27: after any writeChunk calls count <= capacity, code[i] and lines[i] are
\* the i-th byte written and the line passed with it, and the block of each
\* array has room for capacity elements of the array's element type.
C27_Parallel ==
    /\ chunk.count <= chunk.capacity
    /\ chunk.count = Len(chunk.written)
    /\ \A i \in 1..chunk.count :
          chunk.code[i] = chunk.written[i][1] /\ chunk.lines[i] = chunk.written[i][2]
    /\ chunk.code_size >= chunk.capacity * sizeof_uint8_t
    /\ chunk.lines_size >= chunk.capacity * sizeof_int

\* C29: bytes_allocated is the total size of the blocks held through
\* reallocate, and the counter never wraps below zero.
C29_BytesAllocated ==
    chunk.bytes_allocated = chunk.held /\ chunk.bytes_allocated >= 0

\* C26: between an error message and the next there is a synchronize (the
\* parser reports nothing while it panics, and panics from each message on until
\* synchronize clears it); synchronize skips a token only when the previous is
\* not ';' and the current neither starts a statement nor is the end, and stops
\* when one of these holds; had_error is set with the first message and stays.
C26_Panic ==
    LET log == parser.log
        kinds(i, j, ks) == \E k \in i..j : log[k].kind \in ks
        Stop(e) ==
            \/ e.previous = "TOKEN_SEMICOLON"
            \/ e.current \in {"TOKEN_CLASS", "TOKEN_FUN", "TOKEN_VAR", "TOKEN_FOR",
                              "TOKEN_IF", "TOKEN_WHILE", "TOKEN_PRINT", "TOKEN_RETURN",
                              "TOKEN_EOF"}
    IN /\ \A i, j \in 1..Len(log) :
            (i < j /\ log[i].kind = "error" /\ log[j].kind = "error")
                => kinds(i + 1, j - 1, {"synchronize"})
       /\ \A i \in 1..Len(log) :
            /\ log[i].kind = "skip" => ~Stop(log[i])
            /\ log[i].kind = "stop" => Stop(log[i])
            /\ log[i].kind = "synchronize" => kinds(1, i - 1, {"error"})
       /\ parser.had_error <=> kinds(1, Len(log), {"error"})
       /\ parser.panic_mode <=>
            \E i \in 1..Len(log) :
                log[i].kind = "error" /\ ~kinds(i + 1, Len(log), {"synchronize"})

\* a compile has reported an error, skipped a token in synchronize and reported
\* another error after it
C26_Resumed ==
    /\ parser.pc = "return" /\ parser.had_error
    /\ \E i, j, k \in 1..Len(parser.log) :
          /\ i < j /\ j < k
          /\ parser.log[i].kind = "error" /\ parser.log[j].kind = "skip"
          /\ parser.log[k].kind = "error"

\* C30: every call of scanToken returns a token; a string literal gives one
\* STRING token from its opening to its closing quote, with the line counter
\* one higher for each newline the scanner has passed, and a literal the
\* buffer ends in gives the ERROR token Unterminated string.
C30_Terminates ==
    LET sc == scanner
        newlines == Cardinality({i \in 1..(sc.current - 1) : Char(sc, i) = "\n"})
    IN /\ [](sc.pc = "string" => <>(sc.pc = "scanToken"))
       /\ [](sc.pc = "scanToken" =>
              /\ sc.line = 1 + newlines
              /\ sc.token.type = "TOKEN_STRING" =>
                    /\ Char(sc, sc.token.start) = "\""
                    /\ Char(sc, sc.current - 1) = "\""
                    /\ sc.token.length = sc.current - sc.token.start
                    /\ sc.token.length >= 2)

\* C28: the stack never grows past STACK_MAX slots in the run of a program
\* that compiled.
C28_StackBounded == deep.stack_top <= STACK_MAX

====
